---- MODULE Spec2Model ----
(***************************************************************************)
(* kportforward: the fleet manager (Manager), the per-tunnel service       *)
(* instance (ServiceManager), the global-access gate, and the child        *)
(* kubectl processes and local ports they use.                             *)
(*                                                                         *)
(* Time is counted in seconds.  The zero time.Time{} is 0, and the clock   *)
(* starts well after it, so that time.Since(zero) exceeds every duration   *)
(* of the program, as it does in Go.                                       *)
(*                                                                         *)
(* The port registry of utils (FindAvailablePortSafe, ReleasePort) is      *)
(* modelled with the two callers it has, the Swagger UI and the gRPC UI    *)
(* handler.  Of the gRPC UI handler the service entries and the calls of   *)
(* StartService, StopService and MonitorServices are modelled; the grpcui  *)
(* processes themselves are an input of StartService.                      *)
(*                                                                         *)
(* The status channel is followed only in the specifications whose bounds  *)
(* ask for it (TracksStatus); nothing the Manager does depends on it.      *)
(* Of its senders the monitoring tick is modelled; sendInitialStatus,      *)
(* which sends in the same non-blocking way, is not.                       *)
(*                                                                         *)
(* The history variable samples counts, for the specifications whose       *)
(* bounds ask for it (TracksSamples), the consecutive healthy and          *)
(* unhealthy samples GetStatus has evaluated for a service's current       *)
(* child; no step of the program reads it.  The history variable probed    *)
(* records, in the same way (TracksProbes), the last call of the gate      *)
(* check.                                                                  *)
(*                                                                         *)
(* Left out: the context channel, the UI handlers' processes, the log,     *)
(* the health counters that are only logged (healthCheckFailures,          *)
(* lastHealthCheckTime), and the two one-shot calls of monitorServices     *)
(* that Manager.Start and restartAllServices make from goroutines of their *)
(* own two seconds after their work (they run the same steps as a tick of  *)
(* the monitoring loop).  Manager.Start's closing GetStatus calls happen   *)
(* inside every service's grace period and change nothing.                 *)
(***************************************************************************)
EXTENDS Integers, Sequences, FiniteSets, TLC

\* ------------------------------------------------------------------ bounds

\* Live or referenced child processes (process ids 1..MaxPid).
MaxPid == 5
\* Highest local port (stands for 65535).
MaxPort == 3

\* ------------------------------------------------------- program constants

\* The names a configuration can give its port-forwards.
Names == {"a", "b"}

Ports == 1..MaxPort

\* GetStatus: gracePeriod := 5 * time.Second
gracePeriod == 5

\* NewServiceManager: backoffSeconds
backoffSeconds == <<5, 10, 20, 40, 60>>

\* NewServiceManager: maxFailureThreshold
maxFailureThreshold == 3

\* checkAndUpdateGlobalAccess: the two cooldown schedules, in seconds
authCooldowns == <<300, 600, 1800>>
networkCooldowns == <<30, 60, 120>>

\* checkAndUpdateGlobalAccess: re-probe interval while unhealthy
recheckInterval == 5

\* The clock advances in steps of this many seconds.
TickStep == gracePeriod

\* The time at which the program is constructed.
StartOfTime == 2 * gracePeriod

\* The words of an error text; strings.Contains is modelled on whole words.
\* The texts a failed spawn (cmd.Start, the pipes) can produce.
SpawnErrors ==
    { <<"failed to start kubectl port-forward", "executable file not found">>,
      <<"failed to start kubectl port-forward", "permission denied">> }

NoPortError == <<"no available ports found">>

NoError == <<>>

\* isAuthError's keyword list (the ones a spawn error can meet).
AuthKeywords ==
    { "unauthorized", "authentication", "token", "credential", "forbidden",
      "invalid user", "access denied", "unable to load aws credentials",
      "expired", "sso", "login", "auth", "permission denied", "invalid_grant",
      "session", "getting credentials", "refresh failed",
      "executable aws failed", "unable to connect to the server" }

isAuthError(err) == \E i \in 1..Len(err) : err[i] \in AuthKeywords

\* The outcomes of the gate's kubectl probe, as checkGlobalAccess classifies
\* them: nil, "authentication failed: ...", or another failure.
ProbeOutcomes == {"ok", "authentication", "network"}

Contexts == {"ctx1", "ctx2"}

\* ------------------------------------------------------------------- state

VARIABLES
    sm,          \* Manager.services: name -> ServiceManager fields
    cfgPort,     \* config.Service.LocalPort of each service
    children,    \* live kubectl children: [pid, svc, port, bound]
    extPorts,    \* local ports held by processes outside the supervisor
    now,         \* time.Now()
    limit,       \* the bounds of the runs explored (fixed by Init)
    shuttingDown,          \* Manager.shuttingDown
    mainPc,                \* the main goroutine: Manager.Start / Stop
    mainTodo,              \* services its current loop has still to visit
    kubernetesContext,     \* Manager.kubernetesContext
    globalAccessHealthy,
    globalAccessLastCheck,
    globalAccessFailCount,
    globalAccessCooldown,
    monPc,       \* the monitoring goroutine's position in monitorServices
    monTodo,     \* services its current loop has still to visit
    wasHealthy,  \* checkAndUpdateGlobalAccess's local, as the monitor saw it
    tasks,       \* restart goroutines in flight: service -> position -> count
    ctxPc,       \* the restartAllServices goroutine's position
    ctxTodo,     \* services its current loop has still to visit
    ctxCur,      \* the service its stop loop has marked and not yet stopped
    ctxStopped,  \* history: the services its stop loop has stopped
    allocatedPorts,        \* utils.allocatedPorts: the ports reserved
    portMutex,             \* utils.portMutex: its holder, "" when unlocked
    portCall,    \* each registry caller: its call's position and locals
    statusChan,  \* Manager.statusChan: the snapshots queued for the UI
    statusMap,   \* monitorServices' local statusMap, while its loop runs
    grpcServices,          \* GRPCUIManager.services: name -> entry
    grpcTasks,   \* the goroutines MonitorServices started: call -> count
    grpcCall,    \* the StartService call that holds GRPCUIManager.mutex
    grpcMonitored,         \* the MonitorServices calls made and the last
                           \* call's port-forwards with status Running
    samples,     \* history: the run of health samples of each service's
                 \* current child, as the monitoring loop took them
    probed       \* history: the last call of checkAndUpdateGlobalAccess,
                 \* whether it ran the probe and what the probe answered

vars == <<sm, cfgPort, children, extPorts, now, limit, shuttingDown, mainPc,
          mainTodo, kubernetesContext, globalAccessHealthy,
          globalAccessLastCheck, globalAccessFailCount, globalAccessCooldown,
          monPc, monTodo, wasHealthy, tasks, ctxPc, ctxTodo, ctxCur,
          ctxStopped,
          allocatedPorts, portMutex, portCall, statusChan, statusMap,
          grpcServices, grpcTasks, grpcCall, grpcMonitored, samples,
          probed>>

\* The configured services: the keys of config.PortForwards, which are the
\* keys of Manager.services once Manager.Start has created them.
Services == DOMAIN cfgPort

gateVars == <<globalAccessHealthy, globalAccessLastCheck,
              globalAccessFailCount, globalAccessCooldown, probed>>

portVars == <<allocatedPorts, portMutex, portCall>>

chanVars == <<statusChan, statusMap>>

grpcVars == <<grpcServices, grpcTasks, grpcCall, grpcMonitored>>

\* What no step of the Manager but the monitoring loop's visits writes
envVars == <<cfgPort, extPorts, limit, portVars, chanVars, grpcVars,
            samples>>

mainVars == <<mainPc, mainTodo>>

monVars == <<monPc, monTodo, wasHealthy>>

ctxVars == <<ctxPc, ctxTodo, ctxCur, ctxStopped>>

\* What no step of the port registry writes
managerVars == <<sm, cfgPort, children, extPorts, now, limit, shuttingDown,
                 mainVars, kubernetesContext, gateVars, monVars, tasks,
                 ctxVars, chanVars, grpcVars, samples>>

\* Whether the gRPC UI handler is enabled in the runs explored
GrpcEnabled == "grpcui" \in DOMAIN limit

\* Manager.mutex is write-locked for the whole of Manager.Start and
\* Manager.Stop; every other holder takes it for one read or one write.
MutexFree == mainPc \notin {"starting", "stoppingUI", "stopping"}

TaskPcs == {"check", "stop", "incr", "start"}

Min(S) == CHOOSE x \in S : \A y \in S : x <= y

\* ------------------------------------------------------ processes and ports

\* utils.IsProcessRunning
IsProcessRunning(pid) == pid > 0 /\ \E c \in children : c.pid = pid

\* utils.IsPortAvailable: both loopback binds succeed
IsPortAvailable(port) ==
    /\ port \notin extPorts
    /\ ~ \E c \in children : c.bound /\ c.port = port

\* utils.FindAvailablePort: 0 stands for the error
FindAvailablePort(startPort) ==
    LET free == { p \in startPort..MaxPort : IsPortAvailable(p) }
    IN  IF free = {} THEN 0 ELSE Min(free)

\* Something accepts connections on localhost:port
IsListening(port) ==
    port \in extPorts \/ \E c \in children : c.bound /\ c.port = port

\* The process ids the operating system can hand out: not alive, and not
\* one a ServiceManager still refers to.
FreePids ==
    { p \in 1..MaxPid :
        /\ ~ \E c \in children : c.pid = p
        /\ \A s \in Services : sm[s].cmd # p /\ sm[s].PID # p }

\* utils.KillProcess: the process group of pid is gone afterwards
KillProcess(procs, pid) == { c \in procs : c.pid # pid }

\* ------------------------------------------------------------ ServiceManager

\* NewServiceManager
NewServiceManager(port) ==
    [ Status |-> "Starting", StatusMessage |-> "", LastError |-> NoError,
      PID |-> 0, StartTime |-> 0, LocalPort |-> port, RestartCount |-> 0,
      InCooldown |-> FALSE, cmd |-> 0, failureCount |-> 0,
      cooldownUntil |-> 0, consecutiveFailures |-> 0 ]

\* ServiceManager.isInCooldown
isInCooldown(r) == now < r.cooldownUntil

\* A resolvePort that gives up when the configured port is taken.
resolvePortWithoutFallback(s) ==
    IF IsPortAvailable(cfgPort[s]) THEN cfgPort[s] ELSE 0

\* ServiceManager.resolvePort: 0 stands for the error
resolvePort(s) ==
    IF IsPortAvailable(cfgPort[s]) THEN cfgPort[s]
    ELSE FindAvailablePort(cfgPort[s] + 1)

\* A handleFailure whose schedule index is off by one.
handleFailureShifted(r) ==
    LET n == r.failureCount + 1
        backoffIndex == IF n - 2 >= Len(backoffSeconds)
                        THEN Len(backoffSeconds) - 1 ELSE n - 2
    IN  IF n < 3 THEN [r EXCEPT !.failureCount = n]
        ELSE [r EXCEPT !.failureCount = n,
                       !.cooldownUntil = now + backoffSeconds[backoffIndex + 1]]

\* ServiceManager.handleFailure
handleFailure(r) ==
    LET n == r.failureCount + 1
        backoffIndex == IF n - 3 >= Len(backoffSeconds)
                        THEN Len(backoffSeconds) - 1 ELSE n - 3
    IN  IF n < 3 THEN [r EXCEPT !.failureCount = n]
        ELSE [r EXCEPT !.failureCount = n,
                       !.cooldownUntil = now + backoffSeconds[backoffIndex + 1]]

\* ServiceManager.resetFailureCount
resetFailureCount(r) ==
    IF r.failureCount > 0
    THEN [r EXCEPT !.failureCount = 0, !.cooldownUntil = 0]
    ELSE r

\* ServiceManager.Start, its three failure exits
StartCooldown(r) == [r EXCEPT !.Status = "Cooldown", !.InCooldown = TRUE]

StartNoPort(r) == [r EXCEPT !.Status = "Failed", !.LastError = NoPortError]

StartSpawnFailed(r, port, err) ==
    handleFailure([r EXCEPT !.LocalPort = port, !.Status = "Failed",
                            !.LastError = err])

\* ServiceManager.Start, the spawn succeeded with process id pid
StartSpawned(r, port, pid) ==
    [r EXCEPT !.LocalPort = port, !.cmd = pid, !.PID = pid,
              !.StartTime = now, !.Status = "Connecting",
              !.StatusMessage = "Waiting for port-forward to establish",
              !.LastError = NoError, !.InCooldown = FALSE,
              !.consecutiveFailures = 0]

\* ServiceManager.Start as a step on service s; outcome is the error of the
\* spawn (NoError: it succeeded).
Start(s, outcome) ==
    LET r == sm[s]
        port == resolvePort(s)
    IN  IF isInCooldown(r)
        THEN /\ sm' = [sm EXCEPT ![s] = StartCooldown(r)]
             /\ UNCHANGED children
        ELSE IF port = 0
        THEN /\ sm' = [sm EXCEPT ![s] = StartNoPort(r)]
             /\ UNCHANGED children
        ELSE IF outcome # NoError
        THEN /\ r.failureCount < limit.failures
             /\ sm' = [sm EXCEPT ![s] = StartSpawnFailed(r, port, outcome)]
             /\ UNCHANGED children
        ELSE /\ FreePids # {}
             /\ LET pid == Min(FreePids)
                IN  /\ sm' = [sm EXCEPT ![s] = StartSpawned(r, port, pid)]
                    /\ children' = children \cup
                          {[pid |-> pid, svc |-> s, port |-> port,
                            bound |-> FALSE]}

StartOutcomes == {NoError} \cup SpawnErrors

\* A stop that counts a failure.
StopRecCountingFailure(r) ==
    [r EXCEPT !.cmd = 0, !.Status = "Stopped", !.PID = 0,
              !.consecutiveFailures = @ + 1]

\* ServiceManager.Stop
StopRec(r) == [r EXCEPT !.cmd = 0, !.Status = "Stopped", !.PID = 0]

Stop(s) ==
    /\ sm' = [sm EXCEPT ![s] = StopRec(sm[s])]
    /\ children' = IF sm[s].cmd # 0 THEN KillProcess(children, sm[s].cmd)
                   ELSE children

\* A degradation that a single healthy sample undoes.
EvaluateDegradingByOne(r, isProcessRunning, isPortConnected) ==
    LET isHealthy == isProcessRunning /\ isPortConnected
        healthy ==
            IF r.Status = "Failed"
            THEN IF r.consecutiveFailures - 1 <= 0
                 THEN resetFailureCount(
                        [r EXCEPT !.consecutiveFailures = @ - 1,
                                  !.Status = "Running", !.LastError = NoError,
                                  !.StatusMessage = ""])
                 ELSE [r EXCEPT !.consecutiveFailures = @ - 1]
            ELSE IF r.Status = "Degraded"
            THEN IF r.consecutiveFailures - 1 <= 0
                 THEN [r EXCEPT !.consecutiveFailures = @ - 1,
                                !.Status = "Running", !.StatusMessage = "",
                                !.LastError = NoError]
                 ELSE [r EXCEPT !.consecutiveFailures = @ - 1]
            ELSE IF r.Status \in {"Connecting", "Reconnecting"}
            THEN [r EXCEPT !.Status = "Running", !.StatusMessage = "",
                           !.LastError = NoError]
            ELSE [r EXCEPT !.consecutiveFailures = 0, !.StatusMessage = ""]
        counted == [r EXCEPT !.consecutiveFailures = @ + 1]
        unhealthy ==
            IF r.Status = "Running"
            THEN [counted EXCEPT !.Status = "Degraded",
                                 !.StatusMessage = "Port connectivity issues",
                                 !.consecutiveFailures = 1]
            ELSE IF r.Status = "Connecting"
            THEN [counted EXCEPT !.StatusMessage = "Connection in progress..."]
            ELSE IF r.Status = "Reconnecting"
            THEN [counted EXCEPT
                     !.StatusMessage = "Reconnection in progress..."]
            ELSE counted
        failed ==
            [unhealthy EXCEPT
                !.consecutiveFailures = 3, !.Status = "Failed",
                !.LastError = IF ~isProcessRunning
                              THEN <<"Process not running">>
                              ELSE <<"Port not responding">>]
    IN  IF isHealthy THEN healthy
        ELSE IF unhealthy.consecutiveFailures >= maxFailureThreshold
                /\ unhealthy.Status # "Failed"
        THEN failed
        ELSE unhealthy

\* ServiceManager.GetStatus: the health evaluation behind the grace period.
\* isProcessRunning and isPortConnected are the two probes' answers.
Evaluate(r, isProcessRunning, isPortConnected) ==
    LET isHealthy == isProcessRunning /\ isPortConnected
        healthy ==
            IF r.Status = "Failed"
            THEN IF r.consecutiveFailures - 1 <= 0
                 THEN resetFailureCount(
                        [r EXCEPT !.consecutiveFailures = @ - 1,
                                  !.Status = "Running", !.LastError = NoError,
                                  !.StatusMessage = ""])
                 ELSE [r EXCEPT !.consecutiveFailures = @ - 1]
            ELSE IF r.Status = "Degraded"
            THEN IF r.consecutiveFailures - 1 <= 0
                 THEN [r EXCEPT !.consecutiveFailures = @ - 1,
                                !.Status = "Running", !.StatusMessage = "",
                                !.LastError = NoError]
                 ELSE [r EXCEPT !.consecutiveFailures = @ - 1]
            ELSE IF r.Status \in {"Connecting", "Reconnecting"}
            THEN [r EXCEPT !.Status = "Running", !.StatusMessage = "",
                           !.LastError = NoError]
            ELSE [r EXCEPT !.consecutiveFailures = 0, !.StatusMessage = ""]
        counted == [r EXCEPT !.consecutiveFailures = @ + 1]
        unhealthy ==
            IF r.Status = "Running"
            THEN [counted EXCEPT !.Status = "Degraded",
                                 !.StatusMessage = "Port connectivity issues",
                                 !.consecutiveFailures = 2]
            ELSE IF r.Status = "Connecting"
            THEN [counted EXCEPT !.StatusMessage = "Connection in progress..."]
            ELSE IF r.Status = "Reconnecting"
            THEN [counted EXCEPT
                     !.StatusMessage = "Reconnection in progress..."]
            ELSE counted
        failed ==
            [unhealthy EXCEPT
                !.consecutiveFailures = 3, !.Status = "Failed",
                !.LastError = IF ~isProcessRunning
                              THEN <<"Process not running">>
                              ELSE <<"Port not responding">>]
    IN  IF isHealthy THEN healthy
        ELSE IF unhealthy.consecutiveFailures >= maxFailureThreshold
                /\ unhealthy.Status # "Failed"
        THEN failed
        ELSE unhealthy

\* ServiceManager.GetStatus: the fields of s afterwards (the returned copy
\* shows the same status fields).  portResponds is what a dial of the local
\* port answers when something listens on it.
GetStatus(s, portResponds) ==
    LET r == sm[s]
        running == r.cmd # 0 /\ IsProcessRunning(r.cmd)
        connected == running /\ IsListening(r.LocalPort) /\ portResponds
    IN  IF /\ r.Status \in {"Running", "Degraded", "Connecting", "Reconnecting"}
           /\ now - r.StartTime > gracePeriod
        THEN Evaluate(r, running, connected)
        ELSE r

\* ------------------------------------------------------- global-access gate

\* A gate check that respects the whole cooldown.
GateSkipsWholeCooldown == now < globalAccessCooldown

\* checkAndUpdateGlobalAccess: inside the cooldown the probe is skipped,
\* except for a re-probe every recheckInterval while unhealthy.
GateSkips ==
    /\ now < globalAccessCooldown
    /\ \/ ~globalAccessHealthy /\ now - globalAccessLastCheck < recheckInterval
       \/ globalAccessHealthy

\* What checkAndUpdateGlobalAccess returns when the probe answers outcome.
GateResult(outcome) ==
    IF GateSkips THEN globalAccessHealthy ELSE outcome = "ok"

\* A backoff that uses the network schedule for every failure.
CooldownForAnyFailure(outcome, failCount) ==
    networkCooldowns[IF failCount > Len(networkCooldowns)
                     THEN Len(networkCooldowns) ELSE failCount]

\* checkAndUpdateGlobalAccess: the cooldown of the failCount-th failure in
\* a row
CooldownFor(outcome, failCount) ==
    LET cooldowns == IF outcome = "authentication" THEN authCooldowns
                     ELSE networkCooldowns
        cooldownIndex == IF failCount - 1 >= Len(cooldowns)
                         THEN Len(cooldowns) - 1 ELSE failCount - 1
    IN  cooldowns[cooldownIndex + 1]

\* Whether the runs explored record the calls of the gate check
TracksProbes == "probes" \in DOMAIN limit

\* Manager.checkAndUpdateGlobalAccess
checkAndUpdateGlobalAccess(outcome) ==
    /\ probed' = IF ~TracksProbes THEN probed
                 ELSE IF GateSkips THEN [executed |-> FALSE, outcome |-> ""]
                 ELSE [executed |-> TRUE, outcome |-> outcome]
    /\ IF GateSkips
       THEN UNCHANGED <<globalAccessHealthy, globalAccessLastCheck,
                        globalAccessFailCount, globalAccessCooldown>>
       ELSE IF outcome # "ok"
       THEN /\ globalAccessFailCount < limit.gateFails
            /\ globalAccessLastCheck' = now
            /\ globalAccessFailCount' = globalAccessFailCount + 1
            /\ globalAccessHealthy' = FALSE
            /\ globalAccessCooldown' =
                  now + CooldownFor(outcome, globalAccessFailCount + 1)
       ELSE /\ globalAccessLastCheck' = now
            /\ IF ~globalAccessHealthy \/ globalAccessFailCount > 0
               THEN /\ globalAccessHealthy' = TRUE
                    /\ globalAccessFailCount' = 0
                    /\ globalAccessCooldown' = 0
               ELSE UNCHANGED <<globalAccessHealthy, globalAccessFailCount,
                                globalAccessCooldown>>

\* ------------------------------------------------- suspension and resumption

\* A suspension that also clears the restart count.
SuspendRecClearingCount(r) ==
    IF r.Status \in {"Running", "Degraded", "Connecting", "Reconnecting"}
    THEN [r EXCEPT !.cmd = 0, !.Status = "Suspended", !.PID = 0,
                   !.StartTime = 0, !.RestartCount = 0]
    ELSE r

\* Manager.suspendAllServices, the body of its loop for one service
SuspendRec(r) ==
    IF r.Status \in {"Running", "Degraded", "Connecting", "Reconnecting"}
    THEN [r EXCEPT !.cmd = 0, !.Status = "Suspended",
                   !.StatusMessage =
                       "Suspended due to global kubectl access failure",
                   !.PID = 0, !.StartTime = 0]
    ELSE r

\* A suspension that does not look at the status it finds.
SuspendWhateverStatus(s) ==
    /\ sm' = [sm EXCEPT ![s] =
                 [sm[s] EXCEPT !.cmd = 0, !.Status = "Suspended",
                               !.StatusMessage =
                                   "Suspended due to global kubectl access failure",
                               !.PID = 0, !.StartTime = 0]]
    /\ children' = IF sm[s].cmd # 0 THEN KillProcess(children, sm[s].cmd)
                   ELSE children

Suspend(s) ==
    /\ sm' = [sm EXCEPT ![s] = SuspendRec(sm[s])]
    /\ children' =
          IF /\ sm[s].Status \in {"Running", "Degraded", "Connecting",
                                  "Reconnecting"}
             /\ sm[s].cmd # 0
          THEN KillProcess(children, sm[s].cmd)
          ELSE children

\* A resume loop that only resumes services still holding a command.
ResumeNeededWithCommand(r) == r.Status = "Suspended" /\ r.cmd # 0

\* Manager.resumeServicesIfNeeded, the body of its loop for one service
ResumeNeeded(r) == r.Status = "Suspended"

ResumeRec(r) ==
    IF ResumeNeeded(r)
    THEN [r EXCEPT !.Status = "Reconnecting",
                   !.StatusMessage = "Resuming after global access recovery"]
    ELSE r

\* ------------------------------------------------------------ restart tasks

TaskCount(s) ==
    tasks[s]["check"] + tasks[s]["stop"] + tasks[s]["incr"] + tasks[s]["start"]

\* The runs explored hold at most limit.tasks restart goroutines per service
\* at a time and at most limit.restarts restarts of a service in all; a
\* goroutine that exists can always run to its end.
CanSchedule(s) ==
    /\ TaskCount(s) < limit.tasks
    /\ sm[s].RestartCount + tasks[s]["check"] + tasks[s]["stop"]
          + tasks[s]["incr"] < limit.restarts

\* go func() { ... }: one more goroutine at position pc for service s
Spawned(s, pc) == [tasks EXCEPT ![s][pc] = @ + 1]

\* The goroutine of s at position from moves on to position to
\* ("done": it returns).
Moved(s, from, to) ==
    IF to = "done" THEN [tasks EXCEPT ![s][from] = @ - 1]
    ELSE [tasks EXCEPT ![s][from] = @ - 1, ![s][to] = @ + 1]

\* The restart goroutine's guard: if m.isShuttingDown() { return }
TaskCheck(s) ==
    /\ tasks[s]["check"] > 0
    /\ MutexFree
    /\ tasks' = Moved(s, "check", IF shuttingDown THEN "done" ELSE "stop")
    /\ UNCHANGED <<sm, children, envVars, now, shuttingDown, mainVars,
                   kubernetesContext, gateVars, monVars, ctxVars>>

\* ServiceManager.Restart: sm.Stop()
TaskStop(s) ==
    /\ tasks[s]["stop"] > 0
    /\ Stop(s)
    /\ tasks' = Moved(s, "stop", "incr")
    /\ UNCHANGED <<envVars, now, shuttingDown, mainVars, kubernetesContext,
                   gateVars, monVars, ctxVars>>

\* ServiceManager.Restart: sm.status.RestartCount++
TaskIncr(s) ==
    /\ tasks[s]["incr"] > 0
    /\ sm' = [sm EXCEPT ![s].RestartCount = @ + 1]
    /\ tasks' = Moved(s, "incr", "start")
    /\ UNCHANGED <<children, envVars, now, shuttingDown, mainVars,
                   kubernetesContext, gateVars, monVars, ctxVars>>

\* ServiceManager.Restart: return sm.Start()
TaskStart(s, outcome) ==
    /\ tasks[s]["start"] > 0
    /\ Start(s, outcome)
    /\ tasks' = Moved(s, "start", "done")
    /\ UNCHANGED <<envVars, now, shuttingDown, mainVars, kubernetesContext,
                   gateVars, monVars, ctxVars>>

\* Manager.RestartService, called by the user interface: the lookup under
\* the read lock; the caller then runs sm.Restart().
RestartService(s) ==
    /\ mainPc = "running"
    /\ CanSchedule(s)
    /\ tasks' = Spawned(s, "stop")
    /\ UNCHANGED <<sm, children, envVars, now, shuttingDown, mainVars,
                   kubernetesContext, gateVars, monVars, ctxVars>>

\* ------------------------------------------------- the monitoring goroutine

\* startMonitoring: the loop receives a tick.  Manager.Stop stops the ticker
\* and cancels the loop's context.
MonitorTick ==
    /\ monPc = "idle"
    /\ mainPc = "running"
    /\ monPc' = "begin"
    /\ UNCHANGED <<sm, children, envVars, now, shuttingDown, mainVars,
                   kubernetesContext, gateVars, monTodo, wasHealthy, tasks,
                   ctxVars>>

\* monitorServices begins: if m.isShuttingDown() it returns, and the loop
\* goes on to checkKubernetesContext ("returned": after that early return).
MonitorBegin ==
    /\ monPc = "begin"
    /\ MutexFree
    /\ monPc' = IF shuttingDown THEN "returned" ELSE "gate"
    /\ UNCHANGED <<sm, children, envVars, now, shuttingDown, mainVars,
                   kubernetesContext, gateVars, monTodo, wasHealthy, tasks,
                   ctxVars>>

\* monitorServices: if !m.checkAndUpdateGlobalAccess() ... else ...
MonitorGate(outcome) ==
    /\ monPc = "gate"
    /\ checkAndUpdateGlobalAccess(outcome)
    /\ monPc' = IF GateResult(outcome) THEN "resumeLock" ELSE "suspendLock"
    /\ wasHealthy' = globalAccessHealthy
    /\ UNCHANGED <<sm, children, envVars, now, shuttingDown, mainVars,
                   kubernetesContext, monTodo, tasks, ctxVars>>

\* suspendAllServices / resumeServicesIfNeeded / monitorServices: the copy
\* of m.services taken under the read lock
MonitorSnapshot ==
    /\ monPc \in {"suspendLock", "resumeLock", "visitLock"}
    /\ MutexFree
    /\ monPc' = CASE monPc = "suspendLock" -> "suspend"
                  [] monPc = "resumeLock" -> "resume"
                  [] OTHER -> "visit"
    /\ monTodo' = Services
    /\ UNCHANGED <<sm, children, envVars, now, shuttingDown, mainVars,
                   kubernetesContext, gateVars, wasHealthy, tasks, ctxVars>>

\* suspendAllServices: one service of the loop (Go ranges over the map in
\* any order); after the last one monitorServices returns.
MonitorSuspend(s) ==
    /\ monPc = "suspend"
    /\ s \in monTodo
    /\ Suspend(s)
    /\ monTodo' = monTodo \ {s}
    /\ monPc' = IF monTodo' = {} THEN "context" ELSE "suspend"
    /\ UNCHANGED <<envVars, now, shuttingDown, mainVars, kubernetesContext,
                   gateVars, wasHealthy, tasks, ctxVars>>

\* resumeServicesIfNeeded: one service of the loop; a Suspended one is
\* marked Reconnecting and gets a restart goroutine.
MonitorResume(s) ==
    /\ monPc = "resume"
    /\ s \in monTodo
    /\ ResumeNeeded(sm[s]) => CanSchedule(s)
    /\ sm' = [sm EXCEPT ![s] = ResumeRec(sm[s])]
    /\ tasks' = IF ResumeNeeded(sm[s]) THEN Spawned(s, "check") ELSE tasks
    /\ monTodo' = monTodo \ {s}
    /\ monPc' = IF monTodo' = {} THEN "visitLock" ELSE "resume"
    /\ UNCHANGED <<children, envVars, now, shuttingDown, mainVars,
                   kubernetesContext, gateVars, wasHealthy, ctxVars>>

\* A loop that restarts Degraded services as well.
NeedsRestartOrDegraded(status) ==
    status.Status \in {"Failed", "Degraded"} /\ ~status.InCooldown

\* monitorServices: whether the loop restarts a service with this status
NeedsRestart(status) == status.Status = "Failed" /\ ~status.InCooldown

\* Whether the runs explored follow the status channel
TracksStatus == "snapshots" \in DOMAIN limit

\* make(chan map[string]config.ServiceStatus, 1)
statusChanCapacity == 1

\* A status string that calls every counted failure an auth failure.
getGlobalStatusStringByCount ==
    IF globalAccessHealthy THEN "healthy"
    ELSE IF globalAccessFailCount > 0 THEN "auth_failure"
    ELSE "network_failure"

\* Manager.getGlobalStatusString
getGlobalStatusString ==
    IF globalAccessHealthy THEN "healthy"
    ELSE IF /\ globalAccessFailCount > 0
            /\ now < globalAccessCooldown
            /\ globalAccessCooldown - now > 120
    THEN "auth_failure"
    ELSE "network_failure"

\* A send that replaces the queued snapshot when the channel is full.
StatusSendReplacing(queued, snapshot) == <<snapshot>>

\* select { case m.statusChan <- statusMap: default: }
StatusSend(queued, snapshot) ==
    IF Len(queued) < statusChanCapacity THEN Append(queued, snapshot)
    ELSE queued

\* statusMap[name] = status, with the global status set
StatusEntry(map, s, status) ==
    [x \in DOMAIN map \cup {s} |->
        IF x = s THEN [Status |-> status.Status,
                       GlobalStatus |-> getGlobalStatusString]
        ELSE map[x]]

\* monitorServices: one service of the main loop.  GetStatus evaluates its
\* health; a Running service still carrying the degraded message is probed
\* once more (IsHealthy), its message cleared and its status read again.
\* After the last service the snapshot is sent without blocking.
\* Whether the runs explored count the health samples
TracksSamples == "samples" \in DOMAIN limit

\* No sample taken yet.  start is the StartTime of the child the samples
\* are of, healthy and unhealthy the length of the current run of such
\* samples (counted up to limit.samples), relapsed whether the samples
\* taken since the service was last other than Degraded include an
\* unhealthy one, restarted whether the monitoring loop has restarted the
\* service as Failed and not seen it Running since.
NoSamples ==
    [start |-> 0, healthy |-> 0, unhealthy |-> 0, relapsed |-> FALSE,
     restarted |-> FALSE]

\* GetStatus: whether this call evaluates the service's health
SampleTaken(r) ==
    /\ r.Status \in {"Running", "Degraded", "Connecting", "Reconnecting"}
    /\ now - r.StartTime > gracePeriod

\* GetStatus: isHealthy := isProcessRunning && isPortConnected
SampleHealthy(r, portResponds) ==
    /\ r.cmd # 0
    /\ IsProcessRunning(r.cmd)
    /\ IsListening(r.LocalPort)
    /\ portResponds

\* The history after GetStatus has taken r to after with a sample that
\* was healthy or not.
Sampled(run, r, after, healthy) ==
    LET sameChild == IF run.start = r.StartTime THEN run
                     ELSE [NoSamples EXCEPT !.start = r.StartTime,
                                            !.restarted = run.restarted]
    IN  IF healthy
        THEN [sameChild EXCEPT
                 !.healthy = Min({@ + 1, limit.samples}),
                 !.unhealthy = 0,
                 !.relapsed = @ /\ r.Status = "Degraded"]
        ELSE [sameChild EXCEPT
                 !.unhealthy = Min({@ + 1, limit.samples}),
                 !.healthy = 0,
                 !.relapsed = r.Status = "Degraded"
                              /\ after.Status = "Degraded"]

MonitorVisit(s, portResponds) ==
    /\ monPc = "visit"
    /\ s \in monTodo
    /\ LET first == GetStatus(s, portResponds)
           again ==
               /\ first.Status = "Running"
               /\ first.StatusMessage = "Port connectivity issues"
               /\ first.cmd # 0 /\ IsProcessRunning(first.cmd)
               /\ IsListening(first.LocalPort) /\ portResponds
           status == IF again
                     THEN Evaluate([first EXCEPT !.StatusMessage = ""],
                                   TRUE, TRUE)
                     ELSE first
       IN  /\ NeedsRestart(status) => CanSchedule(s)
           /\ sm' = [sm EXCEPT ![s] = status]
           /\ tasks' = IF NeedsRestart(status) THEN Spawned(s, "check")
                       ELSE tasks
           /\ IF ~TracksStatus
              THEN UNCHANGED chanVars
              ELSE IF monTodo = {s}
              THEN /\ statusChan' =
                        StatusSend(statusChan, StatusEntry(statusMap, s, status))
                   /\ statusMap' = [x \in {} |-> 0]
              ELSE /\ statusMap' = StatusEntry(statusMap, s, status)
                   /\ UNCHANGED statusChan
           /\ samples' =
                IF ~TracksSamples THEN samples
                ELSE LET one == Sampled(samples[s], sm[s], first,
                                        SampleHealthy(sm[s], portResponds))
                         run == IF ~SampleTaken(sm[s]) THEN samples[s]
                                ELSE IF again
                                THEN Sampled(one, first, status, TRUE)
                                ELSE one
                     IN  [samples EXCEPT
                            ![s] = [run EXCEPT
                                      !.restarted =
                                          \/ NeedsRestart(status)
                                          \/ @ /\ status.Status # "Running"]]
    /\ monTodo' = monTodo \ {s}
    /\ monPc' = IF monTodo' = {} THEN "context" ELSE "visit"
    /\ UNCHANGED <<children, cfgPort, extPorts, limit, portVars, grpcVars,
                   now, shuttingDown, mainVars, kubernetesContext, gateVars,
                   wasHealthy, ctxVars>>

\* The user interface receives the queued snapshot.
UiReceive ==
    /\ statusChan # <<>>
    /\ statusChan' = Tail(statusChan)
    /\ UNCHANGED <<sm, cfgPort, children, extPorts, now, limit, shuttingDown,
                   mainVars, kubernetesContext, gateVars, monVars, tasks,
                   ctxVars, portVars, statusMap, grpcVars, samples>>

\* checkKubernetesContext: read is what kubectl config current-context
\* answers ("N/A": it failed).  A changed context is stored and
\* restartAllServices is started as a goroutine (one at a time in the runs
\* explored).  The tick is over: the gate check's local wasHealthy is gone.
ContextReads == Contexts \cup {"N/A"}

ContextChanged(read) == read # kubernetesContext /\ read # "N/A"

MonitorContext(read) ==
    /\ monPc \in {"context", "returned"}
    /\ MutexFree
    /\ ContextChanged(read) => ctxPc = "idle"
    /\ monPc' = "idle"
    /\ wasHealthy' = TRUE
    /\ IF ContextChanged(read)
       THEN /\ kubernetesContext' = read
            /\ ctxPc' = "reset"
       ELSE UNCHANGED <<kubernetesContext, ctxPc>>
    /\ UNCHANGED <<sm, children, envVars, now, shuttingDown, mainVars,
                   gateVars, monTodo, tasks, ctxTodo, ctxCur,
                   ctxStopped>>

\* ------------------------------------------ the context-change goroutine

\* A reset that assumes the new context healthy and keeps the backoff.
CtxResetOptimistic ==
    /\ ctxPc = "reset"
    /\ globalAccessHealthy' = TRUE
    /\ globalAccessLastCheck' = 0
    /\ ctxPc' = "lock"
    /\ UNCHANGED <<sm, children, envVars, now, shuttingDown, mainVars,
                   kubernetesContext, monVars, tasks, ctxTodo, ctxCur,
                   probed, ctxStopped, globalAccessFailCount,
                   globalAccessCooldown>>

\* restartAllServices: the gate is reset to unhealthy
CtxReset ==
    /\ ctxPc = "reset"
    /\ globalAccessHealthy' = FALSE
    /\ globalAccessFailCount' = 0
    /\ globalAccessCooldown' = 0
    /\ globalAccessLastCheck' = 0
    /\ ctxPc' = "lock"
    /\ UNCHANGED <<sm, children, envVars, now, shuttingDown, mainVars,
                   kubernetesContext, monVars, tasks, ctxTodo, ctxCur,
                   probed, ctxStopped>>

\* restartAllServices: the copy of m.services taken under the read lock
CtxSnapshot ==
    /\ ctxPc = "lock"
    /\ MutexFree
    /\ ctxPc' = "mark"
    /\ ctxTodo' = Services
    /\ ctxStopped' = {}
    /\ UNCHANGED <<sm, children, envVars, now, shuttingDown, mainVars,
                   kubernetesContext, gateVars, monVars, tasks, ctxCur>>

\* restartAllServices, the stop loop: the service is marked Reconnecting
CtxMarkRec(r) ==
    [r EXCEPT !.Status = "Reconnecting",
              !.StatusMessage = "Reconnecting due to context change"]

CtxMark(s) ==
    /\ ctxPc = "mark"
    /\ s \in ctxTodo
    /\ sm' = [sm EXCEPT ![s] = CtxMarkRec(sm[s])]
    /\ ctxCur' = s
    /\ ctxPc' = "stop"
    /\ UNCHANGED <<children, envVars, now, shuttingDown, mainVars,
                   kubernetesContext, gateVars, monVars, tasks, ctxTodo,
                   ctxStopped>>

\* A stop loop that goes on to the gate check after its first service.
CtxStopOnce ==
    /\ ctxPc = "stop"
    /\ Stop(ctxCur)
    /\ ctxTodo' = ctxTodo \ {ctxCur}
    /\ ctxPc' = "gate"
    /\ ctxCur' = ""
    /\ ctxStopped' = ctxStopped \cup {ctxCur}
    /\ UNCHANGED <<envVars, now, shuttingDown, mainVars, kubernetesContext,
                   gateVars, monVars, tasks>>

\* restartAllServices, the stop loop: sm.Stop(); after the last service the
\* goroutine sleeps and goes on to the gate check.
CtxStop ==
    /\ ctxPc = "stop"
    /\ Stop(ctxCur)
    /\ ctxTodo' = ctxTodo \ {ctxCur}
    /\ ctxPc' = IF ctxTodo' = {} THEN "gate" ELSE "mark"
    /\ ctxCur' = ""
    /\ ctxStopped' = ctxStopped \cup {ctxCur}
    /\ UNCHANGED <<envVars, now, shuttingDown, mainVars, kubernetesContext,
                   gateVars, monVars, tasks>>

\* restartAllServices: if !m.checkAndUpdateGlobalAccess() ... else ...
CtxGate(outcome) ==
    /\ ctxPc = "gate"
    /\ checkAndUpdateGlobalAccess(outcome)
    /\ ctxPc' = IF GateResult(outcome) THEN "start" ELSE "markSuspended"
    /\ ctxTodo' = Services
    /\ UNCHANGED <<sm, children, envVars, now, shuttingDown, mainVars,
                   kubernetesContext, monVars, tasks, ctxCur,
                   ctxStopped>>

\* restartAllServices, the gate failed: every service is marked Suspended
CtxMarkSuspendedRec(r) ==
    [r EXCEPT !.Status = "Suspended",
              !.StatusMessage = "Suspended due to global kubectl access failure after context change",
              !.PID = 0, !.StartTime = 0]

CtxMarkSuspended(s) ==
    /\ ctxPc = "markSuspended"
    /\ s \in ctxTodo
    /\ sm' = [sm EXCEPT ![s] = CtxMarkSuspendedRec(sm[s])]
    /\ ctxTodo' = ctxTodo \ {s}
    /\ ctxPc' = IF ctxTodo' = {} THEN "suspendLock" ELSE "markSuspended"
    /\ UNCHANGED <<children, envVars, now, shuttingDown, mainVars,
                   kubernetesContext, gateVars, monVars, tasks, ctxCur,
                   ctxStopped>>

\* restartAllServices, the gate failed: suspendAllServices' copy of the map
CtxSuspendSnapshot ==
    /\ ctxPc = "suspendLock"
    /\ MutexFree
    /\ ctxPc' = "suspend"
    /\ ctxTodo' = Services
    /\ UNCHANGED <<sm, children, envVars, now, shuttingDown, mainVars,
                   kubernetesContext, gateVars, monVars, tasks, ctxCur,
                   ctxStopped>>

\* restartAllServices, the gate failed: suspendAllServices, one service;
\* after the last one the goroutine returns.
CtxSuspend(s) ==
    /\ ctxPc = "suspend"
    /\ s \in ctxTodo
    /\ Suspend(s)
    /\ ctxTodo' = ctxTodo \ {s}
    /\ ctxPc' = IF ctxTodo' = {} THEN "idle" ELSE "suspend"
    /\ UNCHANGED <<envVars, now, shuttingDown, mainVars, kubernetesContext,
                   gateVars, monVars, tasks, ctxCur,
                   ctxStopped>>

\* restartAllServices, the gate passed: sm.Start() of one service; after the
\* last one the goroutine returns.
CtxStart(s, outcome) ==
    /\ ctxPc = "start"
    /\ s \in ctxTodo
    /\ Start(s, outcome)
    /\ ctxTodo' = ctxTodo \ {s}
    /\ ctxPc' = IF ctxTodo' = {} THEN "idle" ELSE "start"
    /\ UNCHANGED <<envVars, now, shuttingDown, mainVars, kubernetesContext,
                   gateVars, monVars, tasks, ctxCur,
                   ctxStopped>>

\* ------------------------------------------------- Manager.Start and Stop

\* A start that reports the services of a failed gate as Failed.
StartMarkedFailedRec(r) ==
    [r EXCEPT !.Status = "Failed",
              !.StatusMessage = "Suspended due to global kubectl access failure at startup",
              !.StartTime = 0, !.PID = 0]

\* Manager.Start, the gate failed: every service is created Suspended
StartSuspendedRec(r) ==
    [r EXCEPT !.Status = "Suspended",
              !.StatusMessage = "Suspended due to global kubectl access failure at startup",
              !.StartTime = 0, !.PID = 0]

\* Manager.Start: the context is read, the service managers are created and
\* the gate is checked.  If it fails the services are marked Suspended and
\* monitoring starts; else the services are started one by one.
ManagerStart(outcome) ==
    /\ mainPc = "new"
    /\ checkAndUpdateGlobalAccess(outcome)
    /\ IF GateResult(outcome)
       THEN /\ mainPc' = "starting"
            /\ mainTodo' = Services
            /\ UNCHANGED sm
       ELSE /\ mainPc' = "running"
            /\ mainTodo' = {}
            /\ sm' = [s \in Services |-> StartSuspendedRec(sm[s])]
    /\ UNCHANGED <<children, envVars, now, shuttingDown, kubernetesContext,
                   monVars, tasks, ctxVars>>

\* Manager.Start: sm.Start() of one service; after the last one
\* startMonitoring.
ManagerStartService(s, outcome) ==
    /\ mainPc = "starting"
    /\ s \in mainTodo
    /\ Start(s, outcome)
    /\ mainTodo' = mainTodo \ {s}
    /\ mainPc' = IF mainTodo' = {} THEN "running" ELSE "starting"
    /\ UNCHANGED <<envVars, now, shuttingDown, kubernetesContext, gateVars,
                   monVars, tasks, ctxVars>>

\* Manager.Stop: the write lock is taken and shuttingDown set
ManagerStop ==
    /\ mainPc = "running"
    /\ mainPc' = IF GrpcEnabled THEN "stoppingUI" ELSE "stopping"
    /\ mainTodo' = Services
    /\ shuttingDown' = TRUE
    /\ UNCHANGED <<sm, children, envVars, now, kubernetesContext, gateVars,
                   monVars, tasks, ctxVars>>

\* Manager.Stop: sm.Stop() of one service; after the last one the context is
\* cancelled and the lock released.
ManagerStopService(s) ==
    /\ mainPc = "stopping"
    /\ s \in mainTodo
    /\ Stop(s)
    /\ mainTodo' = mainTodo \ {s}
    /\ mainPc' = IF mainTodo' = {} THEN "stopped" ELSE "stopping"
    /\ UNCHANGED <<envVars, now, shuttingDown, kubernetesContext, gateVars,
                   monVars, tasks, ctxVars>>

\* ------------------------------------------------------------ environment

\* A spawned kubectl binds its local port; if the port is taken it exits.
ChildBind(c) ==
    /\ c \in children
    /\ ~c.bound
    /\ children' = IF IsPortAvailable(c.port)
                   THEN (children \ {c}) \cup {[c EXCEPT !.bound = TRUE]}
                   ELSE children \ {c}
    /\ UNCHANGED <<sm, envVars, now, shuttingDown, mainVars,
                   kubernetesContext, gateVars, monVars, tasks, ctxVars>>

\* A kubectl child exits on its own.
ChildExit(c) ==
    /\ c \in children
    /\ children' = children \ {c}
    /\ UNCHANGED <<sm, envVars, now, shuttingDown, mainVars,
                   kubernetesContext, gateVars, monVars, tasks, ctxVars>>

\* Time passes.
Advance ==
    /\ now < StartOfTime + limit.ticks * TickStep
    /\ now' = now + TickStep
    /\ UNCHANGED <<sm, children, envVars, shuttingDown, mainVars,
                   kubernetesContext, gateVars, monVars, tasks, ctxVars>>

\* ------------------------------------------------------- the port registry

\* The callers of the registry: the Swagger UI and the gRPC UI handler
Callers == {"swagger", "grpcui"}

\* The start ports a caller may pass: every port and the number after the
\* highest one.
StartPorts == 1..(MaxPort + 1)

\* A caller outside any call.  startPort and result are those of its last
\* call of FindAvailablePortSafe (result 0 stands for the error), port is
\* the loop variable or ReleasePort's argument during a call, held is the
\* set of ports returned to the caller and not released since.
NoCall ==
    [pc |-> "idle", startPort |-> 0, port |-> 0, result |-> 0, held |-> {}]

\* A loop that also tries the number after the highest port.
PastLastPortPlusOne(port) == port > MaxPort + 1

\* FindAvailablePortSafe: the loop condition port <= 65535 is false
PastLastPort(port) == port > MaxPort

\* A release that empties the registry.
ReleasePortClearing(reserved, port) == {}

\* ReleasePort: delete(allocatedPorts, port)
ReleasePort(reserved, port) == reserved \ {port}

\* FindAvailablePortSafe(startPort) is called by c
PortFind(c, startPort) ==
    /\ portCall[c].pc = "idle"
    /\ portCall' = [portCall EXCEPT ![c].pc = "lock",
                                    ![c].startPort = startPort,
                                    ![c].port = 0, ![c].result = 0]
    /\ UNCHANGED <<managerVars, allocatedPorts, portMutex>>

\* A caller that does not wait for the mutex.
PortLockWithoutMutex(c) ==
    /\ portCall[c].pc = "lock"
    /\ portMutex' = c
    /\ portCall' = [portCall EXCEPT ![c].pc = "scan",
                                    ![c].port = portCall[c].startPort]
    /\ UNCHANGED <<managerVars, allocatedPorts>>

\* FindAvailablePortSafe: portMutex.Lock()
PortLock(c) ==
    /\ portCall[c].pc = "lock"
    /\ portMutex = ""
    /\ portMutex' = c
    /\ portCall' = [portCall EXCEPT ![c].pc = "scan",
                                    ![c].port = portCall[c].startPort]
    /\ UNCHANGED <<managerVars, allocatedPorts>>

\* FindAvailablePortSafe: one round of the loop up to the decision to take
\* the port; past the last port the error is returned.
PortScan(c) ==
    /\ portCall[c].pc = "scan"
    /\ LET port == portCall[c].port
       IN  portCall' =
             IF PastLastPort(port)
             THEN [portCall EXCEPT ![c].pc = "return", ![c].result = 0]
             ELSE IF port \in allocatedPorts
             THEN [portCall EXCEPT ![c].port = port + 1]
             ELSE IF IsPortAvailable(port)
             THEN [portCall EXCEPT ![c].pc = "reserve"]
             ELSE [portCall EXCEPT ![c].port = port + 1]
    /\ UNCHANGED <<managerVars, allocatedPorts, portMutex>>

\* FindAvailablePortSafe: allocatedPorts[port] = true; return port, nil
PortReserve(c) ==
    /\ portCall[c].pc = "reserve"
    /\ allocatedPorts' = allocatedPorts \cup {portCall[c].port}
    /\ portCall' = [portCall EXCEPT ![c].pc = "return",
                                    ![c].result = portCall[c].port]
    /\ UNCHANGED <<managerVars, portMutex>>

\* FindAvailablePortSafe returns: the deferred portMutex.Unlock()
PortReturn(c) ==
    /\ portCall[c].pc = "return"
    /\ portMutex' = ""
    /\ portCall' = [portCall EXCEPT
                       ![c].pc = "idle", ![c].port = 0,
                       ![c].held = @ \cup ({portCall[c].result} \ {0})]
    /\ UNCHANGED <<managerVars, allocatedPorts>>

\* ReleasePort(port) is called by c
PortRelease(c, port) ==
    /\ portCall[c].pc = "idle"
    /\ portCall' = [portCall EXCEPT ![c].pc = "release", ![c].port = port]
    /\ UNCHANGED <<managerVars, allocatedPorts, portMutex>>

\* ReleasePort: the lock, the delete and the unlock; whoever was given the
\* port holds it no longer.
PortReleaseDelete(c) ==
    /\ portCall[c].pc = "release"
    /\ portMutex = ""
    /\ allocatedPorts' = ReleasePort(allocatedPorts, portCall[c].port)
    /\ portCall' = [d \in Callers |->
                       [portCall[d] EXCEPT
                          !.pc = IF d = c THEN "released" ELSE @,
                          !.held = @ \ {portCall[c].port}]]
    /\ UNCHANGED <<managerVars, portMutex>>

\* ReleasePort returns
PortReleaseReturn(c) ==
    /\ portCall[c].pc = "released"
    /\ portCall' = [portCall EXCEPT ![c].pc = "idle", ![c].port = 0]
    /\ UNCHANGED <<managerVars, allocatedPorts, portMutex>>

\* ------------------------------------------------------ the gRPC UI handler

\* What no step of the gRPC UI handler or of the port registry writes
supervisorVars == <<sm, cfgPort, children, extPorts, now, limit,
                    shuttingDown, mainVars, kubernetesContext, gateVars,
                    monVars, tasks, ctxVars, chanVars, samples>>

\* The goroutines MonitorServices starts: StartService or StopService of a
\* service.
GrpcCalls == {"start", "stop"} \X Names

\* GRPCUIManager.mutex is free
NoGrpcCall == [pc |-> "idle", name |-> ""]

\* StartService: utils.FindAvailablePortSafe(9200); the lowest port stands
\* for 9200.
grpcuiStartPort == Min(Ports)

\* What StartService meets after it has its port: the log directory cannot
\* be made, the port-forward does not accept a connection, grpcui cannot be
\* started, grpcui runs, or grpcui is dead 100 ms after its start.
GrpcStartOutcomes == {"nologdir", "noconnection", "nostart", "started", "died"}

\* The outcomes on which StartService returns before it registers an entry
GrpcEarlyReturns == {"nologdir", "noconnection", "nostart"}

\* delete(gm.services, serviceName)
GrpcDelete(services, s) == [x \in DOMAIN services \ {s} |-> services[x]]

\* gm.services[serviceName] = &GRPCUIService{...}
GrpcPut(services, s, entry) ==
    [x \in DOMAIN services \cup {s} |-> IF x = s THEN entry ELSE services[x]]

\* GRPCUIManager.MonitorServices(services, configs), every configured
\* service being of type rpc and running the port-forwards whose status is
\* Running: a StartService goroutine for every one of them without an
\* entry, a StopService goroutine for every entry whose port-forward is not
\* among them.
GrpcMonitorServices(running) ==
    /\ grpcCall.pc = "idle"
    /\ grpcMonitored.calls < limit.ticks
    /\ LET starts == {<<"start", s>> : s \in running \ DOMAIN grpcServices}
           stops == {<<"stop", s>> : s \in DOMAIN grpcServices \ running}
       IN  /\ \A call \in starts \cup stops : grpcTasks[call] < limit.tasks
           /\ grpcTasks' = [call \in GrpcCalls |->
                              IF call \in starts \cup stops
                              THEN grpcTasks[call] + 1
                              ELSE grpcTasks[call]]
    /\ grpcMonitored' = [calls |-> grpcMonitored.calls + 1,
                         running |-> running]
    /\ UNCHANGED <<supervisorVars, portVars, grpcServices, grpcCall>>

\* GRPCUIManager.StartService up to its call of FindAvailablePortSafe, in a
\* goroutine of MonitorServices: it returns at once when a Running entry
\* exists.
GrpcStartService(s) ==
    /\ grpcCall.pc = "idle"
    /\ portCall["grpcui"].pc = "idle"
    /\ grpcTasks[<<"start", s>>] > 0
    /\ grpcTasks' = [grpcTasks EXCEPT ![<<"start", s>>] = @ - 1]
    /\ IF s \in DOMAIN grpcServices /\ grpcServices[s].status = "Running"
       THEN UNCHANGED <<grpcCall, portCall>>
       ELSE /\ grpcCall' = [pc |-> "port", name |-> s]
            /\ portCall' = [portCall EXCEPT
                               !["grpcui"].pc = "lock",
                               !["grpcui"].startPort = grpcuiStartPort,
                               !["grpcui"].port = 0,
                               !["grpcui"].result = 0]
    /\ UNCHANGED <<supervisorVars, allocatedPorts, portMutex, grpcServices,
                   grpcMonitored>>

\* The outcomes on which StartService returns before its first call of
\* gm.statusCallback.UpdateServiceStatusMessage
GrpcReturnsBeforeCallback == {"nologdir", "noconnection"}

\* GRPCUIManager.StartService has its port, its log directory and a
\* connection to the port-forward: holding gm.mutex it calls
\* Manager.UpdateServiceStatusMessage, which takes Manager.mutex for
\* reading.
GrpcStartCallback ==
    /\ grpcCall.pc = "port"
    /\ portCall["grpcui"].pc = "idle"
    /\ portCall["grpcui"].result # 0
    /\ grpcCall' = [grpcCall EXCEPT !.pc = "callback"]
    /\ UNCHANGED <<supervisorVars, portVars, grpcServices, grpcTasks,
                   grpcMonitored>>

\* GRPCUIManager.StartService to its own return: from the return of
\* FindAvailablePortSafe when it has no port, no log directory or no
\* connection, else from its status callback, once that has had
\* Manager.mutex.
GrpcStartReturn(outcome) ==
    /\ IF grpcCall.pc = "callback"
       THEN MutexFree /\ outcome \notin GrpcReturnsBeforeCallback
       ELSE /\ grpcCall.pc = "port"
            /\ portCall["grpcui"].result = 0
               \/ outcome \in GrpcReturnsBeforeCallback
    /\ portCall["grpcui"].pc = "idle"
    /\ LET grpcuiPort == portCall["grpcui"].result
       IN  grpcServices' =
             IF grpcuiPort = 0 \/ outcome \in GrpcEarlyReturns
             THEN grpcServices
             ELSE GrpcPut(grpcServices, grpcCall.name,
                          [status |-> IF outcome = "died" THEN "Failed"
                                      ELSE "Running",
                           grpcuiPort |-> grpcuiPort])
    /\ grpcCall' = NoGrpcCall
    /\ UNCHANGED <<supervisorVars, portVars, grpcTasks, grpcMonitored>>

\* GRPCUIManager.StopService, in a goroutine of MonitorServices.
GrpcStopService(s) ==
    /\ grpcCall.pc = "idle"
    /\ grpcTasks[<<"stop", s>>] > 0
    /\ grpcTasks' = [grpcTasks EXCEPT ![<<"stop", s>>] = @ - 1]
    /\ IF s \in DOMAIN grpcServices
       THEN /\ portMutex = ""
            /\ allocatedPorts' =
                 ReleasePort(allocatedPorts, grpcServices[s].grpcuiPort)
            /\ portCall' = [c \in Callers |->
                              [portCall[c] EXCEPT
                                 !.held = @ \ {grpcServices[s].grpcuiPort}]]
            /\ grpcServices' = GrpcDelete(grpcServices, s)
       ELSE UNCHANGED <<allocatedPorts, portCall, grpcServices>>
    /\ UNCHANGED <<supervisorVars, portMutex, grpcCall, grpcMonitored>>

\* Manager.Stop with the gRPC UI handler enabled: holding Manager.mutex it
\* calls grpcUIHandler.StopService for one service, which takes gm.mutex;
\* after the last one it goes on to stop the port-forwards.
ManagerStopUI(s) ==
    /\ mainPc = "stoppingUI"
    /\ s \in mainTodo
    /\ grpcCall.pc = "idle"
    /\ IF s \in DOMAIN grpcServices
       THEN /\ portMutex = ""
            /\ allocatedPorts' =
                 ReleasePort(allocatedPorts, grpcServices[s].grpcuiPort)
            /\ portCall' = [c \in Callers |->
                              [portCall[c] EXCEPT
                                 !.held = @ \ {grpcServices[s].grpcuiPort}]]
            /\ grpcServices' = GrpcDelete(grpcServices, s)
       ELSE UNCHANGED <<allocatedPorts, portCall, grpcServices>>
    /\ mainTodo' = IF mainTodo = {s} THEN Services ELSE mainTodo \ {s}
    /\ mainPc' = IF mainTodo = {s} THEN "stopping" ELSE "stoppingUI"
    /\ UNCHANGED <<sm, cfgPort, children, extPorts, now, limit, shuttingDown,
                   kubernetesContext, gateVars, monVars, tasks, ctxVars,
                   chanVars, samples, portMutex, grpcTasks, grpcCall,
                   grpcMonitored>>

\* ---------------------------------------------------------- specifications

\* NewManager, with the configuration config, the local ports external
\* taken by other programs, and the bounds of the exploration.
InitWith(config, external, bounds) ==
    /\ cfgPort = config
    /\ extPorts = external
    /\ limit = bounds
    /\ sm = [s \in DOMAIN config |-> NewServiceManager(config[s])]
    /\ children = {}
    /\ now = StartOfTime
    /\ shuttingDown = FALSE
    /\ mainPc = "new"
    /\ mainTodo = {}
    /\ kubernetesContext = "ctx1"
    /\ globalAccessHealthy = TRUE
    /\ globalAccessLastCheck = 0
    /\ globalAccessFailCount = 0
    /\ globalAccessCooldown = 0
    /\ monPc = "idle"
    /\ monTodo = {}
    /\ wasHealthy = TRUE
    /\ tasks = [s \in DOMAIN config |-> [pc \in TaskPcs |-> 0]]
    /\ ctxPc = "idle"
    /\ ctxTodo = {}
    /\ ctxCur = ""
    /\ ctxStopped = {}
    /\ allocatedPorts = {}
    /\ portMutex = ""
    /\ portCall = [c \in Callers |-> NoCall]
    /\ statusChan = <<>>
    /\ statusMap = [x \in {} |-> 0]
    /\ grpcServices = [x \in {} |-> 0]
    /\ grpcTasks = [call \in GrpcCalls |-> 0]
    /\ grpcCall = NoGrpcCall
    /\ grpcMonitored = [calls |-> 0, running |-> {}]
    /\ samples = [s \in DOMAIN config |-> NoSamples]
    /\ probed = [executed |-> FALSE, outcome |-> ""]

\* The actions of the main goroutine up to the start of monitoring
MainSteps ==
    \/ \E outcome \in ProbeOutcomes : ManagerStart(outcome)
    \/ \E s \in Services, outcome \in StartOutcomes :
          ManagerStartService(s, outcome)

\* Manager.Stop
StopSteps ==
    \/ ManagerStop
    \/ \E s \in Services : ManagerStopService(s)

\* The monitoring goroutine
MonitorSteps ==
    \/ MonitorTick
    \/ MonitorBegin
    \/ \E outcome \in ProbeOutcomes : MonitorGate(outcome)
    \/ MonitorSnapshot
    \/ \E s \in Services : MonitorSuspend(s)
    \/ \E s \in Services : MonitorResume(s)
    \/ \E s \in Services, portResponds \in BOOLEAN :
          MonitorVisit(s, portResponds)

\* checkKubernetesContext, with and without context changes
ContextStep == \E read \in ContextReads : MonitorContext(read)

SameContextStep == MonitorContext(kubernetesContext)

\* checkKubernetesContext when kubectl succeeds and prints nothing
EmptyContextStep == MonitorContext("")

\* The restart goroutines
TaskSteps ==
    \/ \E s \in Services : TaskCheck(s)
    \/ \E s \in Services : TaskStop(s)
    \/ \E s \in Services : TaskIncr(s)
    \/ \E s \in Services, outcome \in StartOutcomes : TaskStart(s, outcome)

\* The restartAllServices goroutine
CtxSteps ==
    \/ CtxReset
    \/ CtxSnapshot
    \/ \E s \in Services : CtxMark(s)
    \/ CtxStop
    \/ \E outcome \in ProbeOutcomes : CtxGate(outcome)
    \/ \E s \in Services : CtxMarkSuspended(s)
    \/ CtxSuspendSnapshot
    \/ \E s \in Services : CtxSuspend(s)
    \/ \E s \in Services, outcome \in StartOutcomes : CtxStart(s, outcome)

\* The user restarts a service by hand
ManualStep == \E s \in Services : RestartService(s)

\* The callers of the port registry
PortSteps ==
    \/ \E c \in Callers, startPort \in StartPorts : PortFind(c, startPort)
    \/ \E c \in Callers : PortLock(c)
    \/ \E c \in Callers : PortScan(c)
    \/ \E c \in Callers : PortReserve(c)
    \/ \E c \in Callers : PortReturn(c)
    \/ \E c \in Callers, port \in Ports : PortRelease(c, port)
    \/ \E c \in Callers : PortReleaseDelete(c)
    \/ \E c \in Callers : PortReleaseReturn(c)

\* The gRPC UI handler and its calls of the port registry
GrpcSteps ==
    \/ \E running \in SUBSET Names : GrpcMonitorServices(running)
    \/ \E s \in Names : GrpcStartService(s)
    \/ PortLock("grpcui")
    \/ PortScan("grpcui")
    \/ PortReserve("grpcui")
    \/ PortReturn("grpcui")
    \/ GrpcStartCallback
    \/ \E outcome \in GrpcStartOutcomes : GrpcStartReturn(outcome)
    \/ \E s \in Names : GrpcStopService(s)

\* The children and the clock
ChildSteps ==
    \/ \E c \in children : ChildBind(c)
    \/ \E c \in children : ChildExit(c)

\* ------------------------------------ one service, monitor and manual restarts

MaxTicks == 2
MaxFailures == 1
MaxRestarts == 2
MaxTasks == 2
MaxGateFails == 1

Init ==
    InitWith([s \in {"a"} |-> 1], {},
             [ticks |-> MaxTicks, failures |-> MaxFailures,
              restarts |-> MaxRestarts, tasks |-> MaxTasks,
              gateFails |-> MaxGateFails])

Next ==
    \/ MainSteps
    \/ MonitorSteps
    \/ SameContextStep
    \/ TaskSteps
    \/ ManualStep
    \/ ChildSteps
    \/ Advance

Spec == Init /\ [][Next]_vars

\* C1: in every reachable state at most one child port-forward process
\* exists per service, whatever the interleaving of restart tasks, resume
\* tasks and manual restarts.
AtMostOneChildPerService ==
    \A s \in Services : Cardinality({ c \in children : c.svc = s }) <= 1

\* C3: while the global-access flag is false no step spawns a new child
\* process.
NoSpawnWhileGateUnhealthy ==
    [][ ~globalAccessHealthy =>
          { c.pid : c \in children' } \subseteq { c.pid : c \in children } ]_vars

\* C9: a spawn failure whose error text is classified as an authentication
\* failure leaves the service's failure count and cooldown-until unchanged.
AuthFailureKeepsBackoff ==
    [][ \A s \in Services :
          ( /\ sm'[s].LastError # sm[s].LastError
            /\ sm'[s].LastError \in SpawnErrors
            /\ isAuthError(sm'[s].LastError) )
          => /\ sm'[s].failureCount = sm[s].failureCount
             /\ sm'[s].cooldownUntil = sm[s].cooldownUntil ]_vars

\* C16: a Stop of a service that is Stopped (by a restart, by Manager.Stop
\* or by the context-change task) changes no field of the service, neither
\* status, PID, port, restart count nor the counters, and kills nothing.
StopOfStoppedIsNoOp ==
    [][ \A s \in Services :
          ( /\ sm[s].Status = "Stopped"
            /\ \/ tasks'[s]["stop"] < tasks[s]["stop"]
               \/ mainPc = "stopping" /\ s \in mainTodo /\ s \notin mainTodo'
               \/ ctxPc = "stop" /\ ctxCur = s /\ ctxPc' # "stop" )
          => sm'[s] = sm[s] /\ children' = children ]_vars

\* The first two restarts of a service have both stopped it and neither has
\* counted or started it yet: the second Stop met a Stopped service.
StopOfStoppedIsNoOpWitness ==
    \E s \in Services :
        /\ tasks[s]["incr"] = 2
        /\ sm[s].RestartCount = 0
        /\ sm[s].Status = "Stopped"

\* ------------------------- two services that may ask for the same local port

FewTicks == 1
FewRestarts == 1
FewTasks == 1

\* The local ports the two configured services ask for
TwoPorts == 1..2

InitTwo ==
    \E config \in [Names -> TwoPorts], external \in {{}, {1}} :
        InitWith(config, external,
                 [ticks |-> FewTicks, failures |-> MaxFailures,
                  restarts |-> FewRestarts, tasks |-> FewTasks,
                  gateFails |-> MaxGateFails])

NextTwo ==
    \/ MainSteps
    \/ MonitorSteps
    \/ SameContextStep
    \/ TaskSteps
    \/ ChildSteps
    \/ Advance

SpecTwo == InitTwo /\ [][NextTwo]_vars

\* C2: any two distinct services that both have a child process forward
\* different local ports, also when both ask for the same port and when one
\* probes a port the other's child has not bound yet.
DistinctLocalPorts ==
    \A c1, c2 \in children : c1.svc # c2.svc => c1.port # c2.port

\* C4: on the tick at which the gate goes from healthy to unhealthy, each
\* step of suspendAllServices turns a Running, Degraded, Connecting or
\* Reconnecting service into Suspended with PID 0, no start time, the
\* suspension message and its child killed, and leaves any other service
\* as it is; and when the loop ends every service not Stopped, Failed or in
\* Cooldown is Suspended with PID 0.
SuspensionTick ==
    [][ (monPc = "suspend" /\ wasHealthy) =>
          /\ \A s \in monTodo \ monTodo' :
                IF sm[s].Status \in {"Running", "Degraded", "Connecting",
                                     "Reconnecting"}
                THEN /\ sm'[s].Status = "Suspended"
                     /\ sm'[s].PID = 0
                     /\ sm'[s].StartTime = 0
                     /\ sm'[s].StatusMessage =
                           "Suspended due to global kubectl access failure"
                     /\ \A c \in children' : c.pid # sm[s].cmd
                ELSE sm'[s] = sm[s]
          /\ monPc' = "context" =>
                \A s \in Services :
                    sm'[s].Status \notin {"Stopped", "Failed", "Cooldown"}
                    => sm'[s].Status = "Suspended" /\ sm'[s].PID = 0 ]_vars

\* ------------------------------- one service, context changes and shutdown

InitCtx ==
    InitWith([s \in {"a"} |-> 1], {},
             [ticks |-> FewTicks, failures |-> MaxFailures,
              restarts |-> FewRestarts, tasks |-> FewTasks,
              gateFails |-> MaxGateFails])

NextCtx ==
    \/ MainSteps
    \/ StopSteps
    \/ MonitorSteps
    \/ ContextStep
    \/ TaskSteps
    \/ CtxSteps
    \/ ChildSteps
    \/ Advance

SpecCtx == InitCtx /\ [][NextCtx]_vars

\* C5: in every reachable state a Suspended service has PID 0 and no live
\* child process, also when the context-change task marks it Suspended
\* while a restart task is running.
SuspendedHasNoChild ==
    \A s \in Services :
        sm[s].Status = "Suspended"
        => sm[s].PID = 0 /\ ~ \E c \in children : c.svc = s

\* C11: in every reachable state a Running service has a PID other than 0
\* and was started more than the grace period (5 s) earlier.
RunningHasProcess ==
    \A s \in Services :
        sm[s].Status = "Running"
        => sm[s].PID # 0 /\ now - sm[s].StartTime > gracePeriod

\* C12: when the context-change task has passed the gate, its restart of a
\* service (the Stop of the stop loop followed by this Start) leaves the
\* service's restart count exactly one higher: the step that starts service
\* s for the new context ends with RestartCount raised by 1.
ContextChangeCountsRestart ==
    [][ \A s \in Services :
          (ctxPc = "start" /\ s \in ctxTodo /\ s \notin ctxTodo')
          => sm'[s].RestartCount = sm[s].RestartCount + 1 ]_vars

\* C13: when the gate check of the context-change task has failed, no step
\* of that task spawns a child and, when the task returns (the manager not
\* shutting down), every service is Suspended with PID 0 and has no child
\* process.
GateFailedContextChangeSuspendsAll ==
    [][ /\ ( /\ ctxPc \in {"markSuspended", "suspendLock", "suspend"}
             /\ <<ctxPc, ctxTodo>>' # <<ctxPc, ctxTodo>> )
           => children' \subseteq children
        /\ (ctxPc = "suspend" /\ ctxPc' = "idle" /\ ~shuttingDown)
           => \A s \in Services :
                 /\ sm'[s].Status = "Suspended"
                 /\ sm'[s].PID = 0
                 /\ ~ \E c \in children' : c.svc = s ]_vars

\* C15: once Manager.Stop has returned, every service is Stopped with PID 0
\* and no child process is alive, whatever the monitoring loop, the restart
\* and resume tasks already scheduled and a context-change task in flight do
\* afterwards.
StoppedManagerHasNoChild ==
    mainPc = "stopped"
    => /\ children = {}
       /\ \A s \in Services : sm[s].Status = "Stopped" /\ sm[s].PID = 0

\* -------- one service, every goroutine of a running manager and the user,
\* -------- the clock at rest

NextCount ==
    \/ MainSteps
    \/ MonitorSteps
    \/ ContextStep
    \/ TaskSteps
    \/ CtxSteps
    \/ ManualStep
    \/ ChildSteps

SpecCount == InitCtx /\ [][NextCount]_vars

\* C14: no step makes a service's restart count smaller, unless it is a step
\* of the context-change task.
RestartCountNeverDrops ==
    [][ \A s \in Services :
          sm'[s].RestartCount < sm[s].RestartCount
          => <<ctxPc, ctxTodo>>' # <<ctxPc, ctxTodo>> ]_vars

\* A restart of a service has been counted.
RestartCountNeverDropsWitness ==
    \E s \in Services : sm[s].RestartCount > 0 /\ sm[s].Status = "Suspended"

\* C17: two suspendAllServices invocations running at the same time (the
\* monitoring loop's and the context-change task's) leave each service as
\* one invocation does: a visit leaves a state that a further visit does not
\* change (status, PID, start time, message), a visit of a service that is
\* already Suspended changes and kills nothing, and a visit kills no child
\* but the one the service holds, which no later visit finds again.
SuspendTwiceAsOnce ==
    [][ \A s \in Services :
          ( \/ monPc = "suspend" /\ s \in monTodo /\ s \notin monTodo'
            \/ ctxPc = "suspend" /\ s \in ctxTodo /\ s \notin ctxTodo' )
          => /\ SuspendRec(sm'[s]) = sm'[s]
             /\ sm[s].Status = "Suspended"
                   => sm'[s] = sm[s] /\ children' = children
             /\ children' \subseteq children
             /\ \A c \in children \ children' : c.pid = sm[s].cmd
             /\ children' # children => sm'[s].cmd = 0 ]_vars

\* The context-change task has marked the service Suspended and is about to
\* visit it in its suspendAllServices, and in between the monitoring loop's
\* suspendAllServices has suspended it anew.
SuspendTwiceAsOnceWitness ==
    \E s \in Services :
        /\ ctxPc = "suspend"
        /\ s \in ctxTodo
        /\ monPc = "context"
        /\ sm[s].Status = "Suspended"
        /\ sm[s].StatusMessage =
              "Suspended due to global kubectl access failure"

\* ------------------- one service, the monitoring loop alone, fairly scheduled

ManyFailures == 3
ManyRestarts == 3

InitMonitor ==
    InitWith([s \in {"a"} |-> 1], {},
             [ticks |-> MaxTicks, failures |-> ManyFailures,
              restarts |-> ManyRestarts, tasks |-> FewTasks,
              gateFails |-> MaxGateFails])

NextMonitor ==
    \/ MainSteps
    \/ MonitorSteps
    \/ SameContextStep
    \/ TaskSteps
    \/ ChildSteps
    \/ Advance

\* The Go scheduler runs every goroutine that can run, and the ticker keeps
\* ticking: the main goroutine, the monitoring loop and the restart
\* goroutines each take their next step eventually.
SpecMonitor ==
    /\ InitMonitor
    /\ [][NextMonitor]_vars
    /\ WF_vars(MainSteps)
    /\ WF_vars(MonitorSteps \/ SameContextStep)
    /\ WF_vars(TaskSteps)

\* C7: a service in Cooldown whose cooldown-until has passed, with the gate
\* healthy and no shutdown, eventually leaves Cooldown by the monitoring
\* loop alone (or the gate stops being healthy).
CooldownEnds ==
    \A s \in Names :
        ( /\ s \in Services
          /\ sm[s].Status = "Cooldown"
          /\ now >= sm[s].cooldownUntil
          /\ globalAccessHealthy
          /\ ~shuttingDown )
        ~> ( /\ s \in Services
             /\ sm[s].Status # "Cooldown" \/ ~globalAccessHealthy )

\* C8: on a healthy tick the monitoring loop schedules a restart for the
\* service it visits exactly when the status it reads for it is Failed with
\* the in-cooldown flag false; a service that was Failed with the flag false
\* before the visit gets one.
RestartOnlyFailed ==
    [][ \A s \in Services :
          (monPc = "visit" /\ s \in monTodo \ monTodo')
          => /\ IF sm'[s].Status = "Failed" /\ ~sm'[s].InCooldown
                THEN tasks'[s] = [tasks[s] EXCEPT !["check"] = @ + 1]
                ELSE tasks'[s] = tasks[s]
             /\ (sm[s].Status = "Failed" /\ ~sm[s].InCooldown)
                => tasks'[s]["check"] = tasks[s]["check"] + 1 ]_vars

\* The loop has just scheduled the restart of a Failed service.
RestartOnlyFailedWitness ==
    \E s \in Services :
        /\ monPc = "context"
        /\ globalAccessHealthy
        /\ sm[s].Status = "Failed"
        /\ ~sm[s].InCooldown
        /\ tasks[s]["check"] > 0

\* ------------- one service, suspension and resumption, fairly scheduled

InitResume ==
    InitWith([s \in {"a"} |-> 1], {},
             [ticks |-> FewTicks, failures |-> MaxFailures,
              restarts |-> FewRestarts, tasks |-> FewTasks,
              gateFails |-> MaxGateFails])

SpecResume ==
    /\ InitResume
    /\ [][NextMonitor]_vars
    /\ WF_vars(MainSteps)
    /\ WF_vars(MonitorSteps \/ SameContextStep)
    /\ WF_vars(TaskSteps)

\* C6: after the gate has gone from unhealthy back to healthy, a service
\* that is Suspended (and whose restarts the explored runs have not used
\* up) leaves Suspended: the resume loop of that tick makes it Reconnecting
\* and schedules its restart, and its status becomes one of Connecting,
\* Reconnecting, Running, Degraded, Failed or Cooldown.
SuspendedResumes ==
    /\ [][ \A s \in Services :
             ( /\ monPc = "resume"
               /\ s \in monTodo \ monTodo'
               /\ sm[s].Status = "Suspended" )
             => /\ sm'[s].Status = "Reconnecting"
                /\ tasks'[s]["check"] = tasks[s]["check"] + 1 ]_vars
    /\ \A s \in Names :
          ( /\ s \in Services
            /\ monPc = "resumeLock"
            /\ ~wasHealthy
            /\ sm[s].Status = "Suspended"
            /\ CanSchedule(s) )
          ~> ( /\ s \in Services
               /\ sm[s].Status \in {"Connecting", "Reconnecting", "Running",
                                    "Degraded", "Failed", "Cooldown"} )

\* A service the resume loop has just taken out of Suspended on the tick
\* at which the gate recovered.
SuspendedResumesWitness ==
    \E s \in Services :
        /\ monPc = "visitLock"
        /\ ~wasHealthy
        /\ globalAccessHealthy
        /\ sm[s].Status = "Reconnecting"
        /\ sm[s].StatusMessage = "Resuming after global access recovery"
        /\ tasks[s]["check"] > 0

\* ------------ one service restarted by hand, every spawn of kubectl failing

BackoffTicks == 28
BackoffFailures == 8
BackoffRestarts == 8

InitBackoff ==
    InitWith([s \in {"a"} |-> 1], {},
             [ticks |-> BackoffTicks, failures |-> BackoffFailures,
              restarts |-> BackoffRestarts, tasks |-> FewTasks,
              gateFails |-> MaxGateFails])

NextBackoff ==
    \/ \E outcome \in ProbeOutcomes : ManagerStart(outcome)
    \/ \E s \in Services, err \in SpawnErrors : ManagerStartService(s, err)
    \/ ManualStep
    \/ \E s \in Services : TaskStop(s)
    \/ \E s \in Services : TaskIncr(s)
    \/ \E s \in Services, err \in SpawnErrors : TaskStart(s, err)
    \/ Advance

SpecBackoff == InitBackoff /\ [][NextBackoff]_vars

\* C10: the first two spawn failures of a service set no cooldown; the n-th
\* one, n >= 3, sets cooldown-until to now plus the entry min(n - 3, 4) of
\* the schedule (5, 10, 20, 40, 60) seconds; and cooldown-until is never more
\* than 60 seconds ahead.
BackoffSchedule ==
    /\ [](\A s \in Services : sm[s].cooldownUntil - now <= 60)
    /\ [][ \A s \in Services :
             sm'[s].failureCount # sm[s].failureCount
             => LET n == sm'[s].failureCount
                    schedule == <<5, 10, 20, 40, 60>>
                    index == IF n - 3 < 4 THEN n - 3 ELSE 4
                IN  /\ n = sm[s].failureCount + 1
                    /\ IF n < 3
                       THEN sm'[s].cooldownUntil = 0
                       ELSE sm'[s].cooldownUntil = now + schedule[index + 1]
           ]_vars

\* The eighth failure of a service has just set the longest cooldown.
BackoffScheduleWitness ==
    \E s \in Services :
        /\ sm[s].failureCount = 8
        /\ sm[s].cooldownUntil = now + 60
        /\ sm[s].Status = "Failed"

\* ------------------ the port registry with its two callers, no service, and
\* ------------------ any set of local ports taken by other programs

InitPorts ==
    \E external \in SUBSET Ports :
        InitWith([s \in {} |-> 1], external,
                 [ticks |-> FewTicks, failures |-> MaxFailures,
                  restarts |-> FewRestarts, tasks |-> FewTasks,
                  gateFails |-> MaxGateFails])

NextPorts == PortSteps

SpecPorts == InitPorts /\ [][NextPorts]_vars

\* C18: between two releases of a port it is returned to one caller only,
\* also when the callers run FindAvailablePortSafe at the same time, and a
\* port is in the reserved set when it is returned and for as long as it is
\* held.
PortsReturnedOnce ==
    /\ \A c \in Callers : portCall[c].held \subseteq allocatedPorts
    /\ \A c, d \in Callers :
          c # d => portCall[c].held \cap portCall[d].held = {}
    /\ \A c \in Callers :
          (portCall[c].pc = "return" /\ portCall[c].result # 0)
          => /\ portCall[c].result \in allocatedPorts
             /\ \A d \in Callers : portCall[c].result \notin portCall[d].held

\* One caller is about to return a port while the other, which asked for
\* the same start port, waits for the mutex.
PortsReturnedOnceWitness ==
    \E c, d \in Callers :
        /\ c # d
        /\ portCall[c].pc = "return"
        /\ portCall[c].result # 0
        /\ portCall[d].pc = "lock"
        /\ portCall[d].startPort = portCall[c].startPort

\* C19: FindAvailablePortSafe adds to the reserved set exactly the port it
\* returns, which was not in it, so that ReleasePort of that port gives back
\* the set as it was before; ReleasePort removes exactly its port, and
\* nothing when the port is not reserved.
ReleaseUndoesAcquire ==
    [][ \A c \in Callers :
          /\ (portCall[c].pc = "reserve" /\ portCall'[c].pc = "return")
             => /\ portCall'[c].result \notin allocatedPorts
                /\ allocatedPorts' = allocatedPorts \cup {portCall'[c].result}
                /\ ReleasePort(allocatedPorts', portCall'[c].result)
                      = allocatedPorts
          /\ (portCall[c].pc = "release" /\ portCall'[c].pc = "released")
             => /\ \A p \in Ports :
                      p \in allocatedPorts' <=>
                         (p \in allocatedPorts /\ p # portCall[c].port)
                /\ portCall[c].port \notin allocatedPorts
                      => allocatedPorts' = allocatedPorts ]_vars

\* A caller has released the port its last call of FindAvailablePortSafe
\* returned, and the other caller's reservation stays.
ReleaseUndoesAcquireWitness ==
    \E c, d \in Callers :
        /\ c # d
        /\ portCall[c].pc = "released"
        /\ portCall[c].result # 0
        /\ portCall[c].port = portCall[c].result
        /\ portCall[c].port \notin allocatedPorts
        /\ portCall[d].held # {}
        /\ portCall[d].held = allocatedPorts

\* C20: when no port from startPort to the highest port is both unreserved
\* and free, FindAvailablePortSafe reserves nothing and returns the error,
\* also for the highest port in use and for a start port above it.
NoPortIsAnError ==
    [][ \A c \in Callers :
          ( /\ portCall[c].pc \in {"scan", "reserve"}
            /\ \A p \in portCall[c].startPort..MaxPort :
                  p \in allocatedPorts \/ ~IsPortAvailable(p) )
          => /\ allocatedPorts' = allocatedPorts
             /\ portCall'[c].pc # "reserve"
             /\ portCall'[c].pc = "return" => portCall'[c].result = 0 ]_vars

\* A call from the highest port, which is in use, returns the error after a
\* call from above the highest port has returned it to the other caller.
NoPortIsAnErrorWitness ==
    \E c, d \in Callers :
        /\ c # d
        /\ portCall[c].pc = "return"
        /\ portCall[c].startPort = MaxPort
        /\ portCall[c].result = 0
        /\ ~IsPortAvailable(MaxPort)
        /\ portCall[d].pc = "idle"
        /\ portCall[d].startPort = MaxPort + 1
        /\ portCall[d].result = 0

\* ---------- two services with any configured ports, any set of local ports
\* ---------- taken by other programs; Manager.Start and the children

InitResolve ==
    \E config \in [Names -> Ports], external \in SUBSET Ports :
        InitWith(config, external,
                 [ticks |-> FewTicks, failures |-> MaxFailures,
                  restarts |-> FewRestarts, tasks |-> FewTasks,
                  gateFails |-> MaxGateFails])

NextResolve ==
    \/ MainSteps
    \/ ChildSteps

SpecResolve == InitResolve /\ [][NextResolve]_vars

\* C21: a Start outside cooldown takes the configured local port when it is
\* available and otherwise the lowest available port above it, records it as
\* the service's local port and hands it to the child it spawns; when no
\* port up to the highest one is available it spawns nothing and leaves the
\* service Failed with the error recorded.
StartResolvesPort ==
    [][ \A s \in Services :
          LET above == { p \in (cfgPort[s] + 1)..MaxPort : IsPortAvailable(p) }
              wanted == IF IsPortAvailable(cfgPort[s]) THEN cfgPort[s]
                        ELSE IF above # {} THEN Min(above) ELSE 0
          IN  ( /\ ~isInCooldown(sm[s])
                /\ \/ tasks'[s]["start"] < tasks[s]["start"]
                   \/ mainPc = "starting" /\ s \in mainTodo /\ s \notin mainTodo'
                   \/ ctxPc = "start" /\ s \in ctxTodo /\ s \notin ctxTodo' )
              => IF wanted = 0
                 THEN /\ children' = children
                      /\ sm'[s].Status = "Failed"
                      /\ sm'[s].LastError = NoPortError
                 ELSE /\ sm'[s].LocalPort = wanted
                      /\ \A c \in children' \ children :
                            c.svc = s /\ c.port = wanted ]_vars

\* A service whose configured port is taken has been started on a higher
\* port while the other service found no port at all.
StartResolvesPortWitness ==
    \E s, u \in Services :
        /\ sm[s].Status = "Connecting"
        /\ sm[s].LocalPort > cfgPort[s]
        /\ \E c \in children : c.svc = s /\ c.port = sm[s].LocalPort
        /\ sm[u].Status = "Failed"
        /\ sm[u].LastError = NoPortError

\* ---------- one service, the monitoring loop, the status channel and the UI

InitStatus ==
    InitWith([s \in {"a"} |-> 1], {},
             [ticks |-> MaxTicks, failures |-> MaxFailures,
              restarts |-> FewRestarts, tasks |-> FewTasks,
              gateFails |-> MaxGateFails, snapshots |-> TRUE])

NextStatus ==
    \/ MainSteps
    \/ MonitorSteps
    \/ SameContextStep
    \/ TaskSteps
    \/ ChildSteps
    \/ Advance
    \/ UiReceive

SpecStatus == InitStatus /\ [][NextStatus]_vars

\* C22: the status channel never holds more than one snapshot, and the send
\* that ends a monitoring tick queues the tick's snapshot when the channel is
\* empty and otherwise drops it, leaving the queued snapshot as it was.
StatusChannelDropsWhenFull ==
    [][ /\ Len(statusChan') <= 1
        /\ (monPc = "visit" /\ monPc' = "context")
           => IF statusChan # <<>>
              THEN statusChan' = statusChan
              ELSE /\ Len(statusChan') = 1
                   /\ DOMAIN statusChan'[1] = Services
                   /\ \A s \in Services \ monTodo :
                         statusChan'[1][s].Status = sm[s].Status
                   /\ \A s \in monTodo :
                         statusChan'[1][s].Status = sm'[s].Status ]_vars

\* A tick has just found the service Running while the channel still holds
\* the snapshot of an earlier tick: the tick's own snapshot was dropped.
StatusChannelDropsWhenFullWitness ==
    \E s \in Services :
        /\ monPc = "context"
        /\ Len(statusChan) = 1
        /\ statusChan[1][s].Status = "Connecting"
        /\ sm[s].Status = "Running"

\* C23: the monitoring tick whose gate check fails with an authentication
\* error while a service is Running publishes, the channel being empty, a
\* snapshot in which every service it suspended is Suspended with global
\* status auth_failure.
AuthFailurePublishesSuspended ==
    [][ ( /\ monPc = "suspend"
          /\ monPc' = "context"
          /\ getGlobalStatusString = "auth_failure"
          /\ statusChan = <<>>
          /\ \E s \in Services :
                sm[s].Status = "Running" /\ sm'[s].Status = "Suspended" )
        => /\ statusChan' # <<>>
           /\ \A s \in Services :
                 sm'[s].Status = "Suspended"
                 => statusChan'[1][s] =
                       [Status |-> "Suspended",
                        GlobalStatus |-> "auth_failure"] ]_vars
\* The gRPC UI handler alone, with the local ports other programs hold.
InitGrpc ==
    \E external \in SUBSET Ports :
        InitWith([s \in {} |-> 1], external,
                 [ticks |-> MaxTicks, failures |-> MaxFailures,
                  restarts |-> FewRestarts, tasks |-> FewTasks,
                  gateFails |-> MaxGateFails])

NextGrpc == GrpcSteps

SpecGrpc == InitGrpc /\ [][NextGrpc]_vars

\* C24: a StartService call of the gRPC UI handler that returns without an
\* entry for its service leaves the port it was given unreserved, and so
\* the registry's reserved set as it was when the call began (nothing but
\* the call itself writes the registry while it holds the handler's mutex).
GrpcEarlyReturnReleasesPort ==
    [][(/\ grpcCall.pc \in {"port", "callback"}
        /\ grpcCall'.pc = "idle"
        /\ grpcCall.name \notin DOMAIN grpcServices')
       => portCall["grpcui"].result \notin allocatedPorts']_vars

\* C25: a MonitorServices call that finds a Failed entry whose port-forward
\* is Running removes the entry or starts a goroutine for its service.
GrpcMonitorCleansFailed ==
    [][\A s \in Names :
         (/\ grpcMonitored'.calls = grpcMonitored.calls + 1
          /\ s \in grpcMonitored'.running
          /\ s \in DOMAIN grpcServices
          /\ grpcServices[s].status = "Failed")
         => \/ s \notin DOMAIN grpcServices'
            \/ \E op \in {"start", "stop"} :
                  grpcTasks'[<<op, s>>] > grpcTasks[<<op, s>>]]_vars

\* One service whose health the monitoring loop samples, the samples
\* counted.
MaxSamples == 3

InitHealth ==
    InitWith([s \in {"a"} |-> 1], {},
             [ticks |-> MaxTicks, failures |-> MaxFailures,
              restarts |-> FewRestarts, tasks |-> FewTasks,
              gateFails |-> MaxGateFails, samples |-> MaxSamples])

NextHealth ==
    \/ MainSteps
    \/ MonitorSteps
    \/ SameContextStep
    \/ TaskSteps
    \/ ChildSteps
    \/ Advance

SpecHealth == InitHealth /\ [][NextHealth]_vars

\* C26: a Degraded service becomes Running with its second consecutive
\* healthy sample and not before: it is not left Degraded by a second
\* one, one alone never suffices, and an unhealthy sample in between
\* starts the count again.
DegradedRecoversAfterTwo ==
    [][\A s \in Services :
         /\ (sm[s].Status = "Degraded" /\ sm'[s].Status = "Running")
               => samples'[s].healthy = 2
         /\ sm'[s].Status = "Degraded" => samples'[s].healthy < 2]_vars

\* A service is Running again after an unhealthy sample that left it
\* Degraded and the two healthy ones that followed.
DegradedRecoversAfterTwoWitness ==
    \E s \in Services :
        /\ sm[s].Status = "Running"
        /\ samples[s].healthy = 2
        /\ samples[s].relapsed

\* C27: a service the monitoring loop restarted as Failed becomes Running
\* only with the third consecutive healthy sample of its new child or a
\* later one.
FailedRecoversAfterThree ==
    [][\A s \in Services :
         (/\ samples[s].restarted
          /\ sm[s].Status # "Running"
          /\ sm'[s].Status = "Running")
         => samples'[s].healthy >= 3]_vars

\* C28: the first unhealthy sample of a Running service makes it Degraded,
\* and a service that was Running is made Failed by the third consecutive
\* unhealthy sample or a later one, with a LastError that names the dead
\* process or the unresponsive port.
RunningFailsAfterThree ==
    [][\A s \in Services :
         /\ (sm[s].Status = "Running" /\ sm'[s].Status # "Running"
              /\ samples'[s].unhealthy = 1)
               => sm'[s].Status = "Degraded"
         /\ (sm[s].Status \in {"Running", "Degraded"}
              /\ sm'[s].Status = "Failed")
               => /\ samples'[s].unhealthy >= 3
                  /\ sm'[s].LastError \in {<<"Process not running">>,
                                            <<"Port not responding">>}]_vars

\* C29: the first evaluation of a Connecting service whose child has
\* exited makes it Degraded, and no service is made Running while its
\* child is dead.
DeadChildDegradesConnecting ==
    [][\A s \in Services :
         LET dead == sm[s].cmd = 0 \/ ~IsProcessRunning(sm[s].cmd)
             visited == monPc = "visit" /\ s \in monTodo /\ s \notin monTodo'
         IN  /\ (visited /\ dead /\ sm[s].Status = "Connecting"
                  /\ SampleTaken(sm[s]))
                   => sm'[s].Status = "Degraded"
             /\ (dead /\ sm[s].Status # "Running" /\ sm[s].cmd = sm'[s].cmd)
                   => sm'[s].Status # "Running"]_vars

\* C30: a service that becomes Running has no spawn failure counted and
\* no cooldown set.
RecoveryClearsBackoff ==
    [][\A s \in Services :
         (sm[s].Status # "Running" /\ sm'[s].Status = "Running")
         => /\ sm'[s].failureCount = 0
            /\ sm'[s].cooldownUntil = 0
            /\ ~sm'[s].InCooldown]_vars

\* One service, the gate check called from Manager.Start and the
\* monitoring loop, with many failing probes in a row.
GateTicks == 3
ManyGateFails == 4

InitGate ==
    InitWith([s \in {"a"} |-> 1], {},
             [ticks |-> GateTicks, failures |-> MaxFailures,
              restarts |-> FewRestarts, tasks |-> FewTasks,
              gateFails |-> ManyGateFails, probes |-> TRUE])

NextGate ==
    \/ MainSteps
    \/ MonitorSteps
    \/ SameContextStep
    \/ TaskSteps
    \/ ChildSteps
    \/ Advance

SpecGate == InitGate /\ [][NextGate]_vars

\* C31: every executed gate probe that fails sets the gate unhealthy, adds
\* one to the fail count and sets the cooldown to the probe time plus the
\* step min(fail count, 3) of the schedule 5, 10, 30 minutes for an
\* authentication failure and 30 s, 1, 2 minutes for any other one.
FailedProbeBacksOff ==
    [][LET called == \/ monPc = "gate" /\ monPc' # "gate"
                     \/ mainPc = "new" /\ mainPc' # "new"
                     \/ ctxPc = "gate" /\ ctxPc' # "gate"
           schedule == IF probed'.outcome = "authentication"
                       THEN <<300, 600, 1800>>
                       ELSE <<30, 60, 120>>
       IN  (called /\ probed'.executed /\ probed'.outcome # "ok")
           => /\ ~globalAccessHealthy'
              /\ globalAccessFailCount' = globalAccessFailCount + 1
              /\ globalAccessCooldown' =
                    now + schedule[Min({globalAccessFailCount', 3})]]_vars

\* The fourth authentication failure in a row, each re-probe made inside
\* the cooldown window of the one before.
FailedProbeBacksOffWitness ==
    /\ globalAccessFailCount = 4
    /\ probed = [executed |-> TRUE, outcome |-> "authentication"]
    /\ globalAccessCooldown = globalAccessLastCheck + 1800

\* C32: a call of the gate check skips the probe exactly when the gate is
\* unhealthy, the time is inside the cooldown window and fewer than 5 s
\* have passed since the last probe; a skipped call changes no gate field
\* and returns unhealthy.
ProbeSkippedOnlyInRecheckWindow ==
    [][LET called == \/ monPc = "gate" /\ monPc' # "gate"
                     \/ mainPc = "new" /\ mainPc' # "new"
                     \/ ctxPc = "gate" /\ ctxPc' # "gate"
           window == /\ ~globalAccessHealthy
                     /\ now < globalAccessCooldown
                     /\ now - globalAccessLastCheck < 5
           unhealthy == \/ monPc' = "suspendLock"
                        \/ mainPc = "new" /\ mainPc' = "running"
                        \/ ctxPc' = "markSuspended"
       IN  called
           => /\ probed'.executed <=> ~window
              /\ window
                   => /\ unhealthy
                      /\ UNCHANGED <<globalAccessHealthy,
                                     globalAccessLastCheck,
                                     globalAccessFailCount,
                                     globalAccessCooldown>>]_vars

\* The monitoring loop's gate check has skipped the probe.
ProbeSkippedOnlyInRecheckWindowWitness ==
    /\ monPc = "suspendLock"
    /\ ~probed.executed
    /\ ~globalAccessHealthy

\* C34: getGlobalStatusString answers healthy for a healthy gate, and for
\* an unhealthy one auth_failure if the fail count is positive and more
\* than 2 minutes of cooldown remain, network_failure otherwise.
GlobalStatusStringAsStated ==
    getGlobalStatusString =
        IF globalAccessHealthy THEN "healthy"
        ELSE IF globalAccessFailCount > 0 /\ globalAccessCooldown - now > 120
        THEN "auth_failure"
        ELSE "network_failure"

\* An unhealthy gate with failures counted and at most 2 minutes of
\* cooldown left.
GlobalStatusStringAsStatedWitness ==
    /\ ~globalAccessHealthy
    /\ globalAccessFailCount > 0
    /\ globalAccessCooldown - now <= 120
    /\ getGlobalStatusString = "network_failure"

\* C33: whenever the gate is healthy, its fail count is 0 and its cooldown
\* is cleared.
HealthyGateIsClean ==
    globalAccessHealthy
    => globalAccessFailCount = 0 /\ globalAccessCooldown = 0

\* The context-change task has reset the gate and its probe has
\* succeeded.
HealthyGateIsCleanWitness ==
    /\ ctxPc = "start"
    /\ globalAccessHealthy
    /\ globalAccessLastCheck > 0

\* One service and a context watcher whose kubectl may also print an empty
\* context.
NextWatch ==
    \/ MainSteps
    \/ MonitorSteps
    \/ ContextStep
    \/ EmptyContextStep
    \/ TaskSteps
    \/ CtxSteps
    \/ ChildSteps

SpecWatch == InitCtx /\ [][NextWatch]_vars

\* C35: a context check changes the cached context and starts the
\* context-change task only for a context that differs from the cached one
\* and is not empty; every other check changes neither the cached context
\* nor a service.
WatcherIgnoresEmptyContext ==
    [][(monPc = "context" /\ monPc' = "idle")
       => /\ sm' = sm /\ children' = children
          /\ IF kubernetesContext' # kubernetesContext \/ ctxPc' # ctxPc
             THEN /\ kubernetesContext' \notin {kubernetesContext, "", "N/A"}
                  /\ ctxPc = "idle" /\ ctxPc' = "reset"
             ELSE TRUE]_vars

\* ------------------------------ two services and the context-change task

\* Failed spawns of a run in which every spawn succeeds
NoFailures == 0

InitOrder ==
    InitWith([s \in Names |-> IF s = "a" THEN 1 ELSE 2], {},
             [ticks |-> FewTicks, failures |-> NoFailures,
              restarts |-> FewRestarts, tasks |-> FewTasks,
              gateFails |-> MaxGateFails])

NextOrder ==
    \/ MainSteps
    \/ MonitorSteps
    \/ ContextStep
    \/ CtxSteps

SpecOrder == InitOrder /\ [][NextOrder]_vars

\* C36: within one context-change task every service is stopped, its child
\* killed and its PID cleared, before the gate check and before any start:
\* each stop of the task leaves the service without command, PID or the
\* child it had, and the task's gate check and every start of the task
\* happen only when the task has stopped every service.
StopsPrecedeGateAndStarts ==
    [][/\ (ctxPc = "stop" /\ ctxPc' # "stop")
          => /\ sm'[ctxCur].cmd = 0
             /\ sm'[ctxCur].PID = 0
             /\ sm'[ctxCur].Status = "Stopped"
             /\ \A c \in children' : c.pid # sm[ctxCur].cmd
             /\ ctxStopped' = ctxStopped \cup {ctxCur}
       /\ (ctxPc = "gate" /\ ctxPc' # "gate") => ctxStopped = Services
       /\ (ctxPc = "start" /\ ctxTodo' # ctxTodo) => ctxStopped = Services
      ]_vars

\* The task starts a service after it has stopped both services, the first
\* of them with a live child.
StopsPrecedeGateAndStartsWitness ==
    /\ ctxPc = "start"
    /\ ctxTodo # Services
    /\ ctxStopped = Names
    /\ \E s \in Services \ ctxTodo : sm[s].PID # 0

FailedGateStartsSuspended ==
    [][(mainPc = "new" /\ mainPc' # "new" /\ ~globalAccessHealthy')
          => /\ children' = {}
             /\ \A s \in Services :
                   /\ sm'[s].Status = "Suspended"
                   /\ sm'[s].PID = 0
                   /\ sm'[s].cmd = 0
                   /\ sm'[s].StartTime = 0
             /\ mainPc' = "running"
             /\ monPc' = "idle"
             /\ mainTodo' = {}
      ]_vars

\* Manager.Start has returned after a failed gate check and the monitoring
\* loop has received its first tick.
FailedGateStartsSuspendedWitness ==
    /\ mainPc = "running"
    /\ monPc = "begin"
    /\ ~globalAccessHealthy
    /\ globalAccessFailCount = 1
    /\ children = {}
    /\ \A s \in Services : sm[s].Status = "Suspended" /\ sm[s].RestartCount = 0

\* ------------------------- Manager.mutex and the gRPC UI handler's mutex

InitLocks ==
    InitWith([s \in {"a"} |-> 1], {},
             [ticks |-> MaxTicks, failures |-> MaxFailures,
              restarts |-> FewRestarts, tasks |-> FewTasks,
              gateFails |-> MaxGateFails, grpcui |-> TRUE])

\* Manager.Start and Manager.Stop, and the handler's MonitorServices called
\* by the running manager with its goroutines.
NextLocks ==
    \/ MainSteps
    \/ StopSteps
    \/ \E s \in Services : ManagerStopUI(s)
    \/ \E running \in SUBSET Services :
          mainPc = "running" /\ GrpcMonitorServices(running)
    \/ \E s \in Services : GrpcStartService(s)
    \/ PortLock("grpcui")
    \/ PortScan("grpcui")
    \/ PortReserve("grpcui")
    \/ PortReturn("grpcui")
    \/ GrpcStartCallback
    \/ \E outcome \in GrpcStartOutcomes : GrpcStartReturn(outcome)
    \/ \E s \in Services : GrpcStopService(s)

SpecLocks == InitLocks /\ [][NextLocks]_vars

\* C39: Manager.mutex and the gRPC UI handler's mutex never deadlock: in no
\* reachable state does a StartService that holds the handler's mutex wait
\* in its status callback for Manager.mutex while Manager.Stop holds
\* Manager.mutex and waits for the handler's mutex.
FleetAndPluginLockNeverDeadlock ==
    ~ ( /\ grpcCall.pc = "callback"
        /\ mainPc = "stoppingUI" )

\* C40: the Fleet Manager never holds Manager.mutex while doing I/O: no
\* step of Manager.Start or Manager.Stop made with the lock held spawns a
\* kubectl child or kills one.
FleetLockNotHeldAcrossIO ==
    [][(~MutexFree /\ mainVars' # mainVars)
          => /\ {c.pid : c \in children'} \subseteq {c.pid : c \in children}
             /\ \A s \in Services : sm[s].cmd # 0 => sm'[s].cmd # 0
      ]_vars

====
